---- MODULE Spec2Model ----
(***************************************************************************)
(* Poirot i18n companion: the refresh coordinator.                         *)
(*                                                                         *)
(* TranslationKeysProvider.refresh (single-flight, one pending slot,       *)
(* trailing re-run, grace-clear timer) and the ExtensionActivator event    *)
(* handlers that feed it (debounced text changes, saves).  Every `await`   *)
(* of the source is a suspension point: the code between two awaits is one *)
(* atomic action, and any other action may run between two such actions.   *)
(***************************************************************************)
EXTENDS Integers, Sequences, FiniteSets, TLC

----------------------------------------------------------------------------
(* Bounds of the model *)

\* refresh() calls issued by callers in Spec
MaxRequests == 3
\* refresh() calls issued by callers in FairSpec
MaxFairRequests == 2
\* editor events (text-changed, saved, configuration changed) in EventSpec
MaxEvents == 2
\* scanned calls in one document in PipelineSpec
MaxCalls == 2
\* pieces of text in one document in ScanSpec
MaxItems == 3
\* refresh() calls from outside to the project selector in ProjectSpec
MaxScans == 4
\* refresh() calls to the legacy provider in LegacySpec
MaxLegacyCalls == 3
\* calls of updateLocaleFile in WriteSpec
MaxUpdates == 2
\* milliseconds that pass in one Tick
TimeStep == 150

(* Program constants *)

\* setTimeout(..., 150) of the clear branch
GraceDelay == 150
\* config.get('updateDelay', 300)
UpdateDelay == 300

----------------------------------------------------------------------------
(* Documents and the workspace *)

\* `document = null`
NoDoc == "null"
SourceDocs == {"src/a.ts", "src/b.ts"}
LocaleDocs == {"messages/en.json"}
\* documents, named by their path relative to the project root
Docs == SourceDocs \cup LocaleDocs

languageId(document) == IF document \in SourceDocs THEN "typescript" ELSE "json"

isSupportedDocument(document) ==
    languageId(document) \in
        {"javascript", "javascriptreact", "typescript", "typescriptreact", "svelte"}

\* './messages/{locale}.json', split at the placeholder
pathPattern == [dotSlash |-> TRUE, before |-> "messages/", after |-> ".json"]
\* getAvailableLocales: the locales of the project settings
availableLocales == <<"en", "de">>
\* getCurrentLocale with neither override nor base locale
DefaultLocale == "en"

\* pathPattern.replace('{locale}', locale), './' stripped
expectedPath(locale) ==
    (IF pathPattern.dotSlash THEN "" ELSE "./") \o pathPattern.before \o locale
        \o pathPattern.after

\* SidebarService.isTranslationFile: false without a workspace folder
isTranslationFile(document, ws) ==
    /\ ws
    /\ \E i \in 1..Len(availableLocales) : document = expectedPath(availableLocales[i])

----------------------------------------------------------------------------
VARIABLES
    \* TranslationKeysProvider
    refreshInProgress, pendingRefresh, clearTimeout,
    translationData, currentFilePath, currentTranslations, currentLocale,
    \* activations of refresh(), in call order
    calls,
    \* number of _onDidChangeTreeData.fire()
    fired,
    \* the displayed fields when the pass in flight started
    passStartView,
    \* ExtensionActivator
    documentUpdateTimeouts, timers, realtimeUpdates, handlers,
    \* an onDidChangeConfiguration event for poirot.realtimeUpdates is not yet delivered
    configChangePending,
    \* EditorDecorator.activeDecorations, TranslationCodeLensProvider
    activeDecorations, codeLens,
    \* history of the editor events and of the debounce callbacks
    track, debounceLog,
    \* environment: a workspace folder is open; text version of each document
    workspaceOpen, docText,
    \* vscode.window.activeTextEditor's document
    activeEditor,
    \* the locale data file of each locale; project.inlang/settings.json
    localeFiles, inlangSettings,
    \* one run of the resolution pipeline of EditorService.processDocument
    pipeline,
    \* one load of a locale data file and one lookup of a key in its data
    resolver,
    \* one scan of a text by TranslationService.findTranslationCalls
    scanner,
    \* one call of LocaleService.getCurrentLocale
    localeChoice,
    \* ProjectSelectorProvider: refreshInProgress, pendingRefresh, the calls of refresh()
    projectSelector,
    \* the legacy SidebarTreeProvider of provider.js
    legacy,
    \* the calls of ExtractionService.updateLocaleFile: the last one and their number
    extraction

providerVars == <<refreshInProgress, pendingRefresh, clearTimeout, translationData,
                  currentFilePath, currentTranslations, currentLocale, calls, fired,
                  passStartView>>
configVars == <<realtimeUpdates, configChangePending>>
activatorVars == <<documentUpdateTimeouts, timers, configVars, handlers,
                   activeDecorations, codeLens, track, debounceLog>>
pipelineVars == <<localeFiles, inlangSettings, pipeline, resolver, scanner,
                  localeChoice, projectSelector, legacy, extraction>>
staticEnv == <<workspaceOpen, pipelineVars>>
envVars == <<staticEnv, docText, activeEditor>>
vars == <<providerVars, activatorVars, envVars>>

NoPending == [document |-> "none", force |-> FALSE]
NoTimer == [left |-> -1, age |-> 0, armedBy |-> 0]
NoData == << >>
NoFile == "null"
NoTranslations == [locale |-> "null", data |-> [type |-> "null"]]
NoLocale == "null"

View == <<translationData, currentFilePath, currentTranslations, currentLocale>>
ClearedView == <<NoData, NoFile, NoTranslations, NoLocale>>

BodyPcs == {"isTranslationFile", "getTranslationData", "loadTranslationsForLocale"}
RunningCalls(cs) == {i \in 1..Len(cs) : cs[i].pc \in BodyPcs}
MaxOf(S) == IF S = {} THEN 0 ELSE CHOOSE x \in S : \A y \in S : y <= x

NewCall(kind, document, force, parent) ==
    [kind |-> kind, document |-> document, force |-> force, parent |-> parent,
     pc |-> "returned", result |-> "none", during |-> 0, text |-> -1, data |-> NoData,
     dirty |-> FALSE, timer |-> "none"]

\* the state the synchronous part of refresh() works on
ProviderState == [rip |-> refreshInProgress, pending |-> pendingRefresh,
                  ct |-> clearTimeout, calls |-> calls]

----------------------------------------------------------------------------
(* Locale data, TranslationRepository, TranslationService *)

\* JSON values; an object is its property names in insertion order and the
\* values at the same positions
Undefined == [type |-> "undefined"]
JsNull == [type |-> "null"]
Num(digits) == [type |-> "number", digits |-> digits]
Str(str) == [type |-> "string", str |-> str]
Bool(val) == [type |-> "boolean", val |-> val]
Arr(items) == [type |-> "array", items |-> items]
Obj(keys, vals) == [type |-> "object", keys |-> keys, vals |-> vals]
EmptyObj == Obj(<< >>, << >>)
\* an exception propagating out of a call
Thrown == [type |-> "thrown"]

\* JavaScript truthiness: null, undefined, '' and 0 are falsy
Truthy(v) ==
    CASE v.type \in {"null", "undefined"} -> FALSE
      [] v.type = "string" -> v.str # ""
      [] v.type = "number" -> v.digits # "0"
      [] v.type = "boolean" -> v.val
      [] OTHER -> TRUE

\* the position in an array that a property name denotes, 0 if none
IndexOf(name) ==
    CASE name = "0" -> 1
      [] name = "1" -> 2
      [] OTHER -> 0

\* key in v, for a property name that is no built-in property
HasKey(v, name) ==
    CASE v.type = "object" -> \E i \in 1..Len(v.keys) : v.keys[i] = name
      [] v.type = "array" -> IndexOf(name) \in 1..Len(v.items)
      [] OTHER -> FALSE

\* v[name], for a property name that is no built-in property
Get(v, name) ==
    CASE ~HasKey(v, name) -> Undefined
      [] v.type = "object" -> v.vals[CHOOSE i \in 1..Len(v.keys) : v.keys[i] = name]
      [] v.type = "array" -> v.items[IndexOf(name)]

\* Object.values(v)
ObjectValues(v) ==
    CASE v.type = "object" -> v.vals
      [] v.type = "array" -> v.items
      [] v.type \in {"number", "boolean"} -> << >>

\* String(v); an array is joined with commas, null and undefined items as ''
RECURSIVE JsString(_)
RECURSIVE Join(_)
Join(items) ==
    IF items = << >> THEN ""
    ELSE LET last == items[Len(items)]
             text == IF last.type \in {"null", "undefined"} THEN "" ELSE JsString(last).str
         IN  IF Len(items) = 1 THEN text
             ELSE Join(SubSeq(items, 1, Len(items) - 1)) \o "," \o text
JsString(v) ==
    CASE v.type = "string" -> v
      [] v.type = "number" -> Str(v.digits)
      [] v.type = "boolean" -> Str(IF v.val THEN "true" ELSE "false")
      [] v.type = "array" -> Str(Join(v.items))
      [] v.type = "object" -> Str("[object Object]")
      [] OTHER -> Str(v.type)

\* a translation key: its text and text.split('.')
Key(name, path) == [name |-> name, path |-> path]

\* a file on disk
Absent == [exists |-> FALSE, readable |-> FALSE, parses |-> FALSE, json |-> Undefined]
Unreadable == [exists |-> TRUE, readable |-> FALSE, parses |-> FALSE, json |-> Undefined]
Malformed == [exists |-> TRUE, readable |-> TRUE, parses |-> FALSE, json |-> Undefined]
Parsed(json) == [exists |-> TRUE, readable |-> TRUE, parses |-> TRUE, json |-> json]

Locales == {"en", "fr", "de"}
Greeting == [en |-> "Hello", fr |-> "Bonjour", de |-> "Guten Tag"]
Email == [en |-> "Email", fr |-> "Courriel", de |-> "E-Mail"]

\* the states of the data file of a locale
LocaleFileStates(locale) ==
    {Absent, Unreadable, Malformed, Parsed(JsNull), Parsed(EmptyObj),
     Parsed(Obj(<<"greeting">>, <<Str(Greeting[locale])>>)),
     Parsed(Obj(<<"greeting">>, <<Str("")>>)),
     Parsed(Obj(<<"greeting">>, <<Num("7")>>)),
     Parsed(Obj(<<"greeting", "login">>,
                <<Arr(<<Obj(<<"match">>, <<Obj(<<"count=one">>, <<Str(Greeting[locale])>>)>>)>>),
                  Obj(<<"email">>, <<Str(Email[locale])>>)>>))}

\* project settings: none, or a locales list
SettingsStates ==
    {JsNull} \cup {[type |-> "object", locales |-> list] :
                      list \in {<<"en", "fr", "de">>, <<"de", "fr", "en">>, <<"fr", "de">>}}

\* scanned calls m.greeting() and m["login.email"]()
ScannedCalls ==
    {[methodName |-> Key("greeting", <<"greeting">>), start |-> 0, end |-> 12],
     [methodName |-> Key("login.email", <<"login", "email">>), start |-> 20, end |-> 38]}
CallLists == UNION {[1..n -> ScannedCalls] : n \in 1..MaxCalls}
ActiveLocales == {"en", "fr"}

\* a variant record {"match": {...}} and a catalog with one top-level key
Variant(names, values) == Obj(<<"match">>, <<Obj(names, values)>>)
Catalog(name, value) == Obj(<<name>>, <<value>>)
NestedCatalog(inputs) == Catalog("login", Catalog("inputs", inputs))

\* parsed file contents: top-level values that are no mapping, nested
\* catalogs, variant lists and other leaves
TopLevelValues ==
    {JsNull, Arr(<<Str("Hello")>>), Str("Hello"), Num("7"), Bool(TRUE), EmptyObj}
NestedValues ==
    {Obj(<<"login", "greeting">>, <<Catalog("inputs", Catalog("email", Str("Email"))), Str("Hello")>>),
     NestedCatalog(Catalog("email", JsNull)),
     NestedCatalog(Catalog("email", Arr(<<Variant(<<"x">>, <<Str("Email")>>)>>))),
     NestedCatalog(Arr(<<Str("email")>>)),
     NestedCatalog(Str("email")),
     Catalog("login", Str("Login")),
     Catalog("login", JsNull),
     Catalog("login.inputs.email", Str("Flat"))}
LeafValues ==
    {Str("Hello"), Str(""), Num("7"), Bool(TRUE), Catalog("x", Str("Hi")),
     Arr(<<Variant(<<"x">>, <<Str("Hi")>>), Variant(<<"x">>, <<Str("Yo")>>)>>),
     Arr(<<Variant(<<"x", "y">>, <<Str("Hi"), Str("Ho")>>), Num("7")>>),
     Arr(<<Variant(<<"x">>, <<Num("5")>>)>>),
     Arr(<<Variant(<<"x">>, <<Str("")>>), Variant(<<"x">>, <<Str("Yo")>>)>>),
     Arr(<<Variant(<< >>, << >>), Variant(<<"x">>, <<Str("Yo")>>)>>),
     Arr(<<EmptyObj, Variant(<<"x">>, <<Str("Yo")>>)>>),
     Arr(<<Obj(<<"match">>, <<Arr(<<Str("Hi")>>)>>)>>),
     Arr(<<Str("Hi")>>),
     Arr(<<JsNull>>),
     Arr(<< >>)}
DataFiles ==
    {Absent, Unreadable, Malformed}
    \cup {Parsed(json) : json \in TopLevelValues \cup NestedValues}
    \cup {Parsed(Catalog("greeting", leaf)) : leaf \in LeafValues}
ResolverKeys ==
    {Key("greeting", <<"greeting">>), Key("login", <<"login">>),
     Key("login.inputs.email", <<"login", "inputs", "email">>),
     Key("login.inputs.missing", <<"login", "inputs", "missing">>),
     Key("login.missing.email", <<"login", "missing", "email">>),
     Key("login.inputs.0", <<"login", "inputs", "0">>)}

\* the same without the try/catch: a failing read or parse propagates
loadTranslationsUncaught(file) ==
    IF ~file.exists THEN JsNull
    ELSE IF ~file.readable \/ ~file.parses THEN Thrown
    ELSE IF file.json.type = "null" THEN Thrown
    ELSE file.json
\* TranslationRepository.loadTranslations: null when the file is missing and
\* when readFileSync, JSON.parse or Object.keys(translations) throws
loadTranslations(file) ==
    IF ~file.exists THEN JsNull
    ELSE IF ~file.readable \/ ~file.parses THEN JsNull
    ELSE IF file.json.type = "null" THEN JsNull
    ELSE file.json

\* TranslationService.getNestedValue: path.split('.').reduce(...)
RECURSIVE getNestedValue(_, _)
getNestedValue(obj, path) ==
    IF path = << >> THEN obj
    ELSE LET current == getNestedValue(obj, SubSeq(path, 1, Len(path) - 1))
             key == path[Len(path)]
         IN  IF Truthy(current) /\ HasKey(current, key)
             THEN Get(current, key)
             ELSE Undefined

\* TranslationService.processParaglideVariant
processParaglideVariant(variantArray) ==
    IF variantArray.type # "array" \/ Len(variantArray.items) = 0 THEN JsNull
    ELSE LET firstVariant == variantArray.items[1]
         IN  IF ~Truthy(firstVariant) \/ firstVariant.type \notin {"object", "array"}
                \/ ~Truthy(Get(firstVariant, "match"))
             THEN JsNull
             ELSE LET matchValues == ObjectValues(Get(firstVariant, "match"))
                  IN  IF Len(matchValues) = 0 THEN JsNull ELSE JsString(matchValues[1])

\* TranslationService.getTranslation
getTranslation(translations, key) ==
    IF ~Truthy(translations) THEN JsNull
    ELSE LET value == IF Len(key.path) > 1
                      THEN getNestedValue(translations, key.path)
                      ELSE Get(translations, key.name)
         IN  IF value.type \in {"undefined", "null"} THEN JsNull
             ELSE IF value.type = "string" THEN value
             ELSE IF value.type = "array"
                  THEN LET variantValue == processParaglideVariant(value)
                       IN  IF Truthy(variantValue)
                           THEN Str(variantValue.str \o "*") ELSE JsNull
             ELSE JsNull

\* ProjectSelectorProvider after construction
IdleSelector == [refreshInProgress |-> FALSE, pendingRefresh |-> FALSE, fired |-> 0,
                 calls |-> << >>]
\* SidebarTreeProvider (provider.js) after construction: clearTimeout and
\* the timers that are armed name the call that armed them; translationData
\* names the call that published it
IdleLegacy == [clearTimeout |-> 0, timers |-> {}, translationData |-> 0,
               currentFilePath |-> NoFile, calls |-> << >>]
\* ExtractionService before any call of updateLocaleFile
IdleExtraction == [pc |-> "idle", locale |-> "en", key |-> Key("", <<"">>),
                   value |-> Undefined, before |-> Absent, updates |-> 0]
OtherProvidersIdle ==
    /\ projectSelector = IdleSelector
    /\ legacy = IdleLegacy
    /\ extraction = IdleExtraction

\* obj[name] = val as JSON.stringify(obj) shows it afterwards: a property
\* of an array that is no index is not serialised; assigning to a property
\* of null, undefined or (in a module, which is strict code) a primitive throws
SetProperty(obj, name, val) ==
    CASE obj.type = "object" ->
           IF HasKey(obj, name)
           THEN Obj(obj.keys, [i \in 1..Len(obj.vals) |->
                                  IF obj.keys[i] = name THEN val ELSE obj.vals[i]])
           ELSE Obj(Append(obj.keys, name), Append(obj.vals, val))
      [] obj.type = "array" ->
           IF IndexOf(name) \in 1..Len(obj.items)
           THEN Arr([obj.items EXCEPT ![IndexOf(name)] = val])
           ELSE IF IndexOf(name) = Len(obj.items) + 1 THEN Arr(Append(obj.items, val))
           ELSE obj
      [] OTHER -> Thrown

\* the loop and the final assignment of setNestedValue from `current` on
RECURSIVE SetFrom(_, _, _)
SetFrom(current, keys, value) ==
    IF Len(keys) = 1 THEN SetProperty(current, keys[1], value)
    ELSE IF current.type \in {"null", "undefined", "thrown"} THEN Thrown
    ELSE LET child == Get(current, keys[1])
             next == IF child.type \in {"object", "null"} THEN child ELSE EmptyObj
             written == SetFrom(next, Tail(keys), value)
         IN  IF written = Thrown
                \/ (child.type # "object" /\ current.type \notin {"object", "array"})
             THEN Thrown
             ELSE SetProperty(current, keys[1], written)

\* the same writing every key as a flat key
setNestedValueFlat(obj, key, value) == SetProperty(obj, key.name, value)
\* ExtractionService.setNestedValue: obj after the call, Thrown if it throws
setNestedValue(obj, key, value) ==
    IF Len(key.path) = 1 THEN SetProperty(obj, key.name, value)
    ELSE IF key.path[Len(key.path)] = "" THEN obj
    ELSE SetFrom(obj, key.path, value)

\* JSON.parse(JSON.stringify(v)): a property that is undefined is left out,
\* an item that is undefined becomes null
RECURSIVE parseStringified(_)
parseStringified(v) ==
    CASE v.type = "object" ->
           LET kept == SelectSeq([i \in 1..Len(v.keys) |-> i],
                                 LAMBDA i : v.vals[i].type # "undefined")
           IN  Obj([i \in 1..Len(kept) |-> v.keys[kept[i]]],
                   [i \in 1..Len(kept) |-> parseStringified(v.vals[kept[i]])])
      [] v.type = "array" ->
           Arr([i \in 1..Len(v.items) |->
                  IF v.items[i].type = "undefined" THEN JsNull
                  ELSE parseStringified(v.items[i])])
      [] OTHER -> v

\* the contents of the locale file after updateLocaleFile(_, _, key, value)
\* found it as `file`; Thrown if reading, parsing, setting or writing throws
updatedFile(file, key, value, writable) ==
    LET translations == IF ~file.exists THEN EmptyObj
                        ELSE IF ~file.readable \/ ~file.parses THEN Thrown
                        ELSE file.json
        written == IF translations = Thrown THEN Thrown
                   ELSE setNestedValue(translations, key, value)
    IN  IF written = Thrown \/ ~writable THEN Thrown
        ELSE Parsed(parseStringified(written))

\* the locale files updateLocaleFile finds
WriteFiles ==
    {Absent, Malformed, Parsed(JsNull), Parsed(Arr(<<Str("Hello")>>)), Parsed(Str("Hello")),
     Parsed(EmptyObj),
     Parsed(Catalog("greeting", Str("Hello"))),
     Parsed(Catalog("login", Str("Login"))),
     Parsed(Catalog("login", JsNull)),
     Parsed(Catalog("login", Arr(<<Variant(<<"x">>, <<Str("Login")>>)>>))),
     Parsed(Catalog("login", Catalog("inputs", Arr(<<Str("Email")>>)))),
     Parsed(Obj(<<"greeting", "login">>,
                <<Str("Hello"), Obj(<<"inputs", "title">>,
                                    <<Catalog("email", Str("Email")), Str("Login")>>)>>))}
\* the keys it is called with and the keys that are resolved afterwards
WriteKeys ==
    {Key("greeting", <<"greeting">>), Key("login", <<"login">>),
     Key("login.inputs", <<"login", "inputs">>),
     Key("login.inputs.email", <<"login", "inputs", "email">>),
     Key("login.", <<"login", "">>)}
ReadKeys ==
    WriteKeys \cup {Key("login.title", <<"login", "title">>),
                    Key("login.inputs.0", <<"login", "inputs", "0">>)}
WriteValues == {Str("Hi"), Str("Salut")}

\* ExtractionService.updateLocaleFile(workspacePath, locale, key, value)
updateLocaleFile(locale, key, value, writable) ==
    /\ extraction.updates < MaxUpdates
    /\ LET file == updatedFile(localeFiles[locale], key, value, writable)
       IN  /\ localeFiles' = IF file = Thrown THEN localeFiles
                             ELSE [localeFiles EXCEPT ![locale] = file]
           /\ extraction' = [pc |-> IF file = Thrown THEN "thrown" ELSE "updated",
                             locale |-> locale, key |-> key, value |-> value,
                             before |-> localeFiles[locale],
                             updates |-> extraction.updates + 1]
    /\ UNCHANGED <<providerVars, activatorVars, workspaceOpen, inlangSettings, pipeline,
                   resolver, scanner, localeChoice, projectSelector, legacy, docText,
                   activeEditor>>

RECURSIVE SelectorRefresh(_, _, _, _)
\* ProjectSelectorProvider.refresh: the finally block of call self
SelectorFinally(ps, self, ws, result) ==
    LET done == [ps EXCEPT !.refreshInProgress = FALSE,
                           !.calls[self].pc = "returned",
                           !.calls[self].result = result]
    IN  IF done.pendingRefresh
        THEN SelectorRefresh([done EXCEPT !.pendingRefresh = FALSE], "trailing", self, ws)
        ELSE done

\* the same, where a request made during a scan is not recorded
SelectorRefreshForgetting(ps, kind, parent, ws) ==
    LET n == Len(ps.calls) + 1
        c == [kind |-> kind, parent |-> parent, pc |-> "returned", result |-> "none",
              during |-> 0]
    IN  IF ps.refreshInProgress
        THEN [ps EXCEPT !.calls = Append(@, [c EXCEPT !.result = "recorded",
                   !.during = CHOOSE i \in 1..Len(ps.calls) :
                                  ps.calls[i].pc = "scanForProjects"])]
        ELSE IF ws
        THEN [ps EXCEPT !.refreshInProgress = TRUE,
                        !.calls = Append(@, [c EXCEPT !.pc = "scanForProjects"])]
        ELSE SelectorFinally([ps EXCEPT !.refreshInProgress = TRUE,
                                        !.fired = @ + 1,
                                        !.calls = Append(@, c)], n, ws, "published")
\* ProjectSelectorProvider.refresh up to its first await
SelectorRefresh(ps, kind, parent, ws) ==
    LET n == Len(ps.calls) + 1
        c == [kind |-> kind, parent |-> parent, pc |-> "returned", result |-> "none",
              during |-> 0]
    IN  IF ps.refreshInProgress
        THEN [ps EXCEPT !.pendingRefresh = TRUE,
                        !.calls = Append(@, [c EXCEPT !.result = "recorded",
                           !.during = CHOOSE i \in 1..Len(ps.calls) :
                                          ps.calls[i].pc = "scanForProjects"])]
        ELSE IF ws
        THEN [ps EXCEPT !.refreshInProgress = TRUE,
                        !.calls = Append(@, [c EXCEPT !.pc = "scanForProjects"])]
        ELSE SelectorFinally([ps EXCEPT !.refreshInProgress = TRUE,
                                        !.fired = @ + 1,
                                        !.calls = Append(@, c)], n, ws, "published")

\* a caller invokes ProjectSelectorProvider.refresh()
RefreshProjects ==
    /\ Cardinality({i \in 1..Len(projectSelector.calls) :
                       projectSelector.calls[i].kind = "request"}) < MaxScans
    /\ projectSelector' = SelectorRefresh(projectSelector, "request", 0, workspaceOpen)
    /\ UNCHANGED <<providerVars, activatorVars, workspaceOpen, localeFiles, inlangSettings,
                   pipeline, resolver, scanner, localeChoice, legacy, extraction, docText, activeEditor>>

\* `await scanForProjects(workspacePath)` resumes: the project list and the
\* active project are assigned and the tree event is fired
ResumeScanForProjects(self) ==
    /\ projectSelector.calls[self].pc = "scanForProjects"
    /\ projectSelector' = SelectorFinally([projectSelector EXCEPT !.fired = @ + 1], self,
                                          workspaceOpen, "published")
    /\ UNCHANGED <<providerVars, activatorVars, workspaceOpen, localeFiles, inlangSettings,
                   pipeline, resolver, scanner, localeChoice, legacy, extraction, docText, activeEditor>>

\* the scan resumes and getActiveProjectPath throws
RejectScanForProjects(self) ==
    /\ projectSelector.calls[self].pc = "scanForProjects"
    /\ projectSelector' = SelectorFinally(projectSelector, self, workspaceOpen, "threw")
    /\ UNCHANGED <<providerVars, activatorVars, workspaceOpen, localeFiles, inlangSettings,
                   pipeline, resolver, scanner, localeChoice, legacy, extraction, docText, activeEditor>>

ScanStep ==
    \E self \in 1..Len(projectSelector.calls) :
        ResumeScanForProjects(self) \/ RejectScanForProjects(self)

\* SidebarTreeProvider.refresh (provider.js) of call self after the project
\* scan: the clear branch arms the timer, a document goes on to isTranslationFile
LegacyAfterScan(lg, self) ==
    IF lg.calls[self].document = NoDoc
    THEN [lg EXCEPT !.clearTimeout = self, !.timers = @ \cup {self},
                    !.calls[self].pc = "returned"]
    ELSE [lg EXCEPT !.calls[self].pc = "isTranslationFile"]

\* SidebarTreeProvider.refresh(document) up to its first await: the pending
\* clear is cancelled; without a workspace folder there is no project scan
LegacyRefresh(document) ==
    /\ Len(legacy.calls) < MaxLegacyCalls
    /\ LET self == Len(legacy.calls) + 1
           cancelled == [legacy EXCEPT
                           !.timers = @ \ {legacy.clearTimeout},
                           !.clearTimeout = 0,
                           !.calls = Append(@, [document |-> document,
                                                pc |-> "scanForProjects"])]
       IN  legacy' = IF workspaceOpen THEN cancelled ELSE LegacyAfterScan(cancelled, self)
    /\ UNCHANGED <<providerVars, activatorVars, workspaceOpen, localeFiles, inlangSettings,
                   pipeline, resolver, scanner, localeChoice, projectSelector, extraction, docText,
                   activeEditor>>

\* `await scanForProjects(workspacePath)` resumes
LegacyResumeScan(self) ==
    /\ legacy.calls[self].pc = "scanForProjects"
    /\ legacy' = LegacyAfterScan(legacy, self)
    /\ UNCHANGED <<providerVars, activatorVars, workspaceOpen, localeFiles, inlangSettings,
                   pipeline, resolver, scanner, localeChoice, projectSelector, extraction, docText,
                   activeEditor>>

\* `await isTranslationFile(document)` resumes; force is false
LegacyResumeIsTranslationFile(self) ==
    /\ legacy.calls[self].pc = "isTranslationFile"
    /\ legacy' = [legacy EXCEPT
                    !.calls[self].pc =
                        IF isTranslationFile(legacy.calls[self].document, workspaceOpen)
                        THEN "returned" ELSE "getTranslationData"]
    /\ UNCHANGED <<providerVars, activatorVars, workspaceOpen, localeFiles, inlangSettings,
                   pipeline, resolver, scanner, localeChoice, projectSelector, extraction, docText,
                   activeEditor>>

\* `this.translationData = await getTranslationData(document)` resumes
LegacyResumeGetTranslationData(self) ==
    /\ legacy.calls[self].pc = "getTranslationData"
    /\ legacy' = [legacy EXCEPT !.translationData = self,
                                !.currentFilePath = legacy.calls[self].document,
                                !.calls[self].pc = "returned"]
    /\ UNCHANGED <<providerVars, activatorVars, workspaceOpen, localeFiles, inlangSettings,
                   pipeline, resolver, scanner, localeChoice, projectSelector, extraction, docText,
                   activeEditor>>

\* the callback of the clear branch's setTimeout, for the timer call t armed
LegacyGraceFire(t) ==
    /\ t \in legacy.timers
    /\ legacy' = [legacy EXCEPT !.translationData = 0, !.currentFilePath = NoFile,
                                !.clearTimeout = 0, !.timers = @ \ {t}]
    /\ UNCHANGED <<providerVars, activatorVars, workspaceOpen, localeFiles, inlangSettings,
                   pipeline, resolver, scanner, localeChoice, projectSelector, extraction, docText,
                   activeEditor>>

\* a text is a sequence of pieces: a flat call m.greeting(), a nested call
\* m["login.email"](), a nested call whose arguments hold a flat call,
\* m["login.email"](m.greeting(), and other text
TextItems == {"flat", "nested", "nestedWithFlat", "other"}
Texts == UNION {[1..n -> TextItems] : n \in 0..MaxItems}
ItemLength(item) ==
    CASE item = "flat" -> 12
      [] item = "nested" -> 18
      [] item = "nestedWithFlat" -> 29
      [] item = "other" -> 3
\* where in a nestedWithFlat piece the flat call starts
InnerOffset == 17

\* the offset of piece k in the text
RECURSIVE OffsetOf(_, _)
OffsetOf(text, k) ==
    IF k = 1 THEN 0 ELSE OffsetOf(text, k - 1) + ItemLength(text[k - 1])

\* while ((match = flatPattern.exec(text)) !== null) calls.push(...)
RECURSIVE FlatMatches(_, _)
FlatMatches(text, k) ==
    IF k > Len(text) THEN << >>
    ELSE LET start == OffsetOf(text, k)
             rest == FlatMatches(text, k + 1)
         IN  CASE text[k] = "flat" ->
                    <<[methodName |-> "greeting", start |-> start,
                       end |-> start + ItemLength("flat"), keyType |-> "flat"]>> \o rest
               [] text[k] = "nestedWithFlat" ->
                    <<[methodName |-> "greeting", start |-> start + InnerOffset,
                       end |-> start + InnerOffset + ItemLength("flat"),
                       keyType |-> "flat"]>> \o rest
               [] OTHER -> rest

\* while ((match = nestedPattern.exec(text)) !== null) calls.push(...)
RECURSIVE NestedMatches(_, _)
NestedMatches(text, k) ==
    IF k > Len(text) THEN << >>
    ELSE LET start == OffsetOf(text, k)
             rest == NestedMatches(text, k + 1)
         IN  IF text[k] \in {"nested", "nestedWithFlat"}
             THEN <<[methodName |-> "login.email", start |-> start,
                     end |-> start + ItemLength(text[k]), keyType |-> "nested"]>> \o rest
             ELSE rest

\* a stable insertion of a call into calls sorted by start
RECURSIVE InsertByStart(_, _)
InsertByStart(sorted, call) ==
    IF sorted = << >> THEN <<call>>
    ELSE IF sorted[Len(sorted)].start - call.start > 0
         THEN Append(InsertByStart(SubSeq(sorted, 1, Len(sorted) - 1), call),
                     sorted[Len(sorted)])
         ELSE Append(sorted, call)

KeepDiscoveryOrder(scanned) == scanned
\* calls.sort((a, b) => a.start - b.start)
RECURSIVE SortByStart(_)
SortByStart(scanned) ==
    IF scanned = << >> THEN << >>
    ELSE InsertByStart(SortByStart(SubSeq(scanned, 1, Len(scanned) - 1)),
                       scanned[Len(scanned)])

IdleScanner == [pc |-> "idle", text |-> << >>, calls |-> << >>]

\* findTranslationCalls: the loop over flatPattern
ScanFlat ==
    /\ scanner.pc = "start"
    /\ scanner' = [scanner EXCEPT !.pc = "flatDone", !.calls = FlatMatches(scanner.text, 1)]
    /\ UNCHANGED <<providerVars, activatorVars, workspaceOpen, localeFiles,
                   inlangSettings, pipeline, resolver, localeChoice, projectSelector, legacy, extraction, docText, activeEditor>>

\* findTranslationCalls: the loop over nestedPattern
ScanNested ==
    /\ scanner.pc = "flatDone"
    /\ scanner' = [scanner EXCEPT !.pc = "nestedDone",
                                  !.calls = @ \o NestedMatches(scanner.text, 1)]
    /\ UNCHANGED <<providerVars, activatorVars, workspaceOpen, localeFiles,
                   inlangSettings, pipeline, resolver, localeChoice, projectSelector, legacy, extraction, docText, activeEditor>>

\* findTranslationCalls: calls.sort(...); return calls
SortAndReturn ==
    /\ scanner.pc = "nestedDone"
    /\ scanner' = [scanner EXCEPT !.pc = "returned", !.calls = SortByStart(@)]
    /\ UNCHANGED <<providerVars, activatorVars, workspaceOpen, localeFiles,
                   inlangSettings, pipeline, resolver, localeChoice, projectSelector, legacy, extraction, docText, activeEditor>>

\* config.get('defaultLocale'): not configured, empty, or a locale
ConfigLocales == {Undefined, Str(""), Str("fr"), Str("de")}
\* project.inlang/settings.json: missing, unreadable, not JSON, or JSON with
\* or without a baseLocale
SettingsFiles ==
    {Absent, Unreadable, Malformed, Parsed(JsNull), Parsed(EmptyObj),
     Parsed(Obj(<<"locales">>, <<Arr(<<Str("en"), Str("de")>>)>>)),
     Parsed(Obj(<<"baseLocale">>, <<Str("")>>)),
     Parsed(Obj(<<"baseLocale">>, <<JsNull>>)),
     Parsed(Obj(<<"baseLocale">>, <<Str("de")>>)),
     Parsed(Obj(<<"baseLocale", "locales">>, <<Str("fr"), Arr(<<Str("fr"), Str("en")>>)>>))}

\* LocaleService.loadInlangSettings: the parsed settings, null when the file
\* is missing or reading or parsing it throws
loadInlangSettings(file) ==
    IF ~file.exists THEN JsNull
    ELSE IF ~file.readable \/ ~file.parses THEN JsNull
    ELSE file.json

IdleChoice == [pc |-> "idle", configLocale |-> Undefined, settingsFile |-> Absent,
               result |-> Undefined]

\* the same, where the configured locale is not looked at
CheckConfigurationSkipped ==
    /\ localeChoice.pc = "start"
    /\ localeChoice' = [localeChoice EXCEPT !.pc = "noOverride"]
    /\ UNCHANGED <<providerVars, activatorVars, workspaceOpen, localeFiles,
                   inlangSettings, pipeline, resolver, scanner, projectSelector, legacy, extraction, docText, activeEditor>>
\* getCurrentLocale, 1: if (configLocale) return configLocale
CheckConfiguration ==
    /\ localeChoice.pc = "start"
    /\ localeChoice' = IF Truthy(localeChoice.configLocale)
                       THEN [localeChoice EXCEPT !.pc = "returned",
                                                 !.result = localeChoice.configLocale]
                       ELSE [localeChoice EXCEPT !.pc = "noOverride"]
    /\ UNCHANGED <<providerVars, activatorVars, workspaceOpen, localeFiles,
                   inlangSettings, pipeline, resolver, scanner, projectSelector, legacy, extraction, docText, activeEditor>>

\* getCurrentLocale, 2: with a workspace folder, the settings' baseLocale if
\* inlangSettings?.baseLocale is truthy
CheckInlangSettings ==
    /\ localeChoice.pc = "noOverride"
    /\ LET settings == loadInlangSettings(localeChoice.settingsFile)
           baseLocale == Get(settings, "baseLocale")
       IN  localeChoice' = IF workspaceOpen /\ Truthy(baseLocale)
                           THEN [localeChoice EXCEPT !.pc = "returned",
                                                     !.result = baseLocale]
                           ELSE [localeChoice EXCEPT !.pc = "noBaseLocale"]
    /\ UNCHANGED <<providerVars, activatorVars, workspaceOpen, localeFiles,
                   inlangSettings, pipeline, resolver, scanner, projectSelector, legacy, extraction, docText, activeEditor>>

\* getCurrentLocale, 3: return 'en'
DefaultToEnglish ==
    /\ localeChoice.pc = "noBaseLocale"
    /\ localeChoice' = [localeChoice EXCEPT !.pc = "returned", !.result = Str("en")]
    /\ UNCHANGED <<providerVars, activatorVars, workspaceOpen, localeFiles,
                   inlangSettings, pipeline, resolver, scanner, projectSelector, legacy, extraction, docText, activeEditor>>

IdleResolver == [pc |-> "idle", file |-> Absent, key |-> Key("", <<"">>),
                 data |-> Undefined, value |-> Undefined]

\* TranslationRepository.loadTranslations of one file
Load ==
    /\ resolver.pc = "start"
    /\ resolver' = [resolver EXCEPT !.pc = "loaded", !.data = loadTranslations(resolver.file)]
    /\ UNCHANGED <<providerVars, activatorVars, workspaceOpen, localeFiles,
                   inlangSettings, pipeline, scanner, localeChoice, projectSelector, legacy, extraction, docText, activeEditor>>

\* TranslationService.getTranslation of one key in the loaded data
Resolve ==
    /\ resolver.pc = "loaded"
    /\ resolver' = [resolver EXCEPT !.pc = "resolved",
                                    !.value = getTranslation(resolver.data, resolver.key)]
    /\ UNCHANGED <<providerVars, activatorVars, workspaceOpen, localeFiles,
                   inlangSettings, pipeline, scanner, localeChoice, projectSelector, legacy, extraction, docText, activeEditor>>

\* the states a locale data file moves between while the editor runs
DiskFileStates(locale) ==
    {Absent, Malformed,
     Parsed(Obj(<<"greeting", "login">>,
                <<Arr(<<Obj(<<"match">>, <<Obj(<<"count=one">>, <<Str(Greeting[locale])>>)>>)>>),
                  Obj(<<"email">>, <<Str(Email[locale])>>)>>))}

\* a locale data file is written, replaced or deleted on disk
LocaleFileChanged(locale, file) ==
    /\ file # localeFiles[locale]
    /\ localeFiles' = [localeFiles EXCEPT ![locale] = file]
    /\ UNCHANGED <<providerVars, activatorVars, workspaceOpen, inlangSettings,
                   pipeline, resolver, scanner, localeChoice, projectSelector, legacy, extraction, docText, activeEditor>>

\* the same from a cache filled when the default locale had its first contents
loadTranslationsFromCache(files, locale) ==
    IF locale = "en" THEN Catalog("greeting", Str(Greeting[locale]))
    ELSE loadTranslations(files[locale])
\* TranslationService.loadTranslationsForLocale; the default pathPattern
\* './messages/{locale}.json' gives every locale a file of its own
loadTranslationsForLocale(files, locale) == loadTranslations(files[locale])

\* inlangSettings?.locales || ['en']
availableLocalesOf(settings) ==
    IF Truthy(settings) THEN settings.locales ELSE <<"en">>

Hit(translation, locale) == [type |-> "hit", translation |-> translation, locale |-> locale]

\* the loop of searchKeyInAllLocales from position i on: its return value,
\* the locales it loaded, in order, and those of them whose load gave no data;
\* an exception ends it with null
RECURSIVE SearchFrom(_, _, _, _, _)
SearchFrom(files, locales, i, key, excluded) ==
    IF i > Len(locales) THEN [result |-> JsNull, loaded |-> << >>, skipped |-> << >>]
    ELSE LET locale == locales[i]
             rest == SearchFrom(files, locales, i + 1, key, excluded)
             translations == loadTranslationsForLocale(files, locale)
             translationValue == getTranslation(translations, key)
         IN  IF locale = excluded THEN rest
             ELSE IF translations.type = "thrown"
                  THEN [result |-> JsNull, loaded |-> <<locale>>, skipped |-> << >>]
             ELSE IF ~Truthy(translations)
                  THEN [result |-> rest.result, loaded |-> <<locale>> \o rest.loaded,
                        skipped |-> <<locale>> \o rest.skipped]
             ELSE IF Truthy(translationValue)
                  THEN [result |-> Hit(translationValue, locale), loaded |-> <<locale>>,
                        skipped |-> << >>]
             ELSE [result |-> rest.result, loaded |-> <<locale>> \o rest.loaded,
                   skipped |-> rest.skipped]

\* TranslationService.searchKeyInAllLocales
searchKeyInAllLocales(files, settings, key, excluded) ==
    SearchFrom(files, availableLocalesOf(settings), 1, key, excluded)

\* foundInLocale of a result that has none
Unset == "undefined"
NoSearch == [result |-> Undefined, loaded |-> << >>, skipped |-> << >>]

\* the same without the search of the other locales
ResolveCallWithoutFallback(call, translations, files, settings, active) ==
    LET currentTranslation == getTranslation(translations, call.methodName)
    IN  IF Truthy(currentTranslation)
        THEN [pushed |-> [call |-> call, translationValue |-> currentTranslation,
                          warningType |-> "null", foundInLocale |-> Unset],
              search |-> NoSearch]
        ELSE [pushed |-> [call |-> call, translationValue |-> JsNull,
                          warningType |-> "noLocale", foundInLocale |-> Unset],
              search |-> NoSearch]
\* the same, recording the locale of every value found
ResolveCallNamingLocale(call, translations, files, settings, active) ==
    LET currentTranslation == getTranslation(translations, call.methodName)
        search == searchKeyInAllLocales(files, settings, call.methodName, active)
    IN  IF Truthy(currentTranslation)
        THEN [pushed |-> [call |-> call, translationValue |-> currentTranslation,
                          warningType |-> "null", foundInLocale |-> active],
              search |-> NoSearch]
        ELSE IF search.result.type = "hit"
        THEN [pushed |-> [call |-> call, translationValue |-> search.result.translation,
                          warningType |-> "missingLocale",
                          foundInLocale |-> search.result.locale],
              search |-> search]
        ELSE [pushed |-> [call |-> call, translationValue |-> JsNull,
                          warningType |-> "noLocale", foundInLocale |-> Unset],
              search |-> search]
\* one iteration of the loop of processTranslationCallsWithWarnings: the
\* result pushed and the fallback search made for it
ResolveCall(call, translations, files, settings, active) ==
    LET currentTranslation == getTranslation(translations, call.methodName)
        search == searchKeyInAllLocales(files, settings, call.methodName, active)
    IN  IF Truthy(currentTranslation)
        THEN [pushed |-> [call |-> call, translationValue |-> currentTranslation,
                          warningType |-> "null", foundInLocale |-> Unset],
              search |-> NoSearch]
        ELSE IF search.result.type = "hit"
        THEN [pushed |-> [call |-> call, translationValue |-> search.result.translation,
                          warningType |-> "missingLocale",
                          foundInLocale |-> search.result.locale],
              search |-> search]
        ELSE [pushed |-> [call |-> call, translationValue |-> JsNull,
                          warningType |-> "noLocale", foundInLocale |-> Unset],
              search |-> search]

IdlePipeline == [pc |-> "idle", translationCalls |-> << >>, translations |-> Undefined,
                 currentLocale |-> NoLocale, results |-> << >>, searches |-> << >>,
                 dirty |-> FALSE, run |-> 0, previous |-> << >>]

\* processDocument up to the call of processTranslationCallsWithWarnings:
\* the scanned calls, the active locale and its data, translations || {}
StartPipeline(translationCalls, active) ==
    /\ pipeline.pc = "idle"
    /\ workspaceOpen
    /\ Len(translationCalls) > 0
    /\ LET translations == loadTranslationsForLocale(localeFiles, active)
       IN  pipeline' = [pc |-> "processing", translationCalls |-> translationCalls,
                        translations |-> IF Truthy(translations) THEN translations
                                         ELSE EmptyObj,
                        currentLocale |-> active, results |-> << >>, searches |-> << >>,
                        dirty |-> FALSE, run |-> 1, previous |-> << >>]
    /\ UNCHANGED <<providerVars, activatorVars, workspaceOpen, localeFiles,
                   inlangSettings, resolver, scanner, localeChoice, projectSelector, legacy, extraction, docText, activeEditor>>

\* the same, where a locale file that fails to load ends the loop
ProcessCallAborting ==
    /\ pipeline.pc = "processing"
    /\ Len(pipeline.results) < Len(pipeline.translationCalls)
    /\ LET call == pipeline.translationCalls[Len(pipeline.results) + 1]
           step == ResolveCall(call, pipeline.translations, localeFiles, inlangSettings,
                               pipeline.currentLocale)
       IN  pipeline' = IF step.search.skipped # << >>
                       THEN [pipeline EXCEPT !.pc = "returned"]
                       ELSE [pipeline EXCEPT !.results = Append(@, step.pushed),
                                             !.searches = Append(@, step.search)]
    /\ UNCHANGED <<providerVars, activatorVars, workspaceOpen, localeFiles,
                   inlangSettings, resolver, scanner, localeChoice, projectSelector, legacy, extraction, docText, activeEditor>>
\* processTranslationCallsWithWarnings: for (const call of translationCalls)
ProcessCall ==
    /\ pipeline.pc = "processing"
    /\ Len(pipeline.results) < Len(pipeline.translationCalls)
    /\ LET call == pipeline.translationCalls[Len(pipeline.results) + 1]
           step == ResolveCall(call, pipeline.translations, localeFiles, inlangSettings,
                               pipeline.currentLocale)
       IN  pipeline' = [pipeline EXCEPT !.results = Append(@, step.pushed),
                                        !.searches = Append(@, step.search)]
    /\ UNCHANGED <<providerVars, activatorVars, workspaceOpen, localeFiles,
                   inlangSettings, resolver, scanner, localeChoice, projectSelector, legacy, extraction, docText, activeEditor>>

\* the same, where the calls found in no locale are left out
ReturnResolvedOnly ==
    /\ pipeline.pc = "processing"
    /\ Len(pipeline.results) = Len(pipeline.translationCalls)
    /\ pipeline' = [pipeline EXCEPT
                      !.pc = "returned",
                      !.results = SelectSeq(@, LAMBDA r : r.warningType # "noLocale")]
    /\ UNCHANGED <<providerVars, activatorVars, workspaceOpen, localeFiles,
                   inlangSettings, resolver, scanner, localeChoice, projectSelector, legacy, extraction, docText, activeEditor>>
\* processTranslationCallsWithWarnings: return results
ReturnResults ==
    /\ pipeline.pc = "processing"
    /\ Len(pipeline.results) = Len(pipeline.translationCalls)
    /\ pipeline' = [pipeline EXCEPT !.pc = "returned"]
    /\ UNCHANGED <<providerVars, activatorVars, workspaceOpen, localeFiles,
                   inlangSettings, resolver, scanner, localeChoice, projectSelector, legacy, extraction, docText, activeEditor>>

\* the second run forgets the active locale's data
RunAgainWithoutData ==
    /\ pipeline.pc = "returned"
    /\ pipeline.run = 1
    /\ pipeline' = [pipeline EXCEPT !.pc = "processing", !.translations = EmptyObj,
                                    !.results = << >>, !.searches = << >>,
                                    !.dirty = FALSE, !.run = 2,
                                    !.previous = pipeline.results]
    /\ UNCHANGED <<providerVars, activatorVars, workspaceOpen, localeFiles,
                   inlangSettings, resolver, scanner, localeChoice, projectSelector, legacy, extraction, docText, activeEditor>>
\* processDocument once more on the same text under the same active locale:
\* the same scanned calls, the active locale's data loaded again; previous
\* keeps what the first run returned
RunAgain ==
    /\ pipeline.pc = "returned"
    /\ pipeline.run = 1
    /\ LET translations == loadTranslationsForLocale(localeFiles, pipeline.currentLocale)
       IN  pipeline' = [pipeline EXCEPT !.pc = "processing",
                                        !.translations = IF Truthy(translations)
                                                         THEN translations ELSE EmptyObj,
                                        !.results = << >>, !.searches = << >>,
                                        !.dirty = FALSE, !.run = 2,
                                        !.previous = pipeline.results]
    /\ UNCHANGED <<providerVars, activatorVars, workspaceOpen, localeFiles,
                   inlangSettings, resolver, scanner, localeChoice, projectSelector, legacy, extraction, docText, activeEditor>>

----------------------------------------------------------------------------
(* TranslationKeysProvider.refresh *)

\* a call returns: whoever awaits it in its finally block returns too
RECURSIVE Unwind(_, _)
Unwind(cs, i) ==
    LET cs1 == [cs EXCEPT ![i].pc = "returned"]
    IN  IF cs[i].parent # 0 /\ cs[cs[i].parent].pc = "finally"
        THEN Unwind(cs1, cs[i].parent)
        ELSE cs1

NeverInFlight(rip) == FALSE
\* if (this.refreshInProgress)
InFlight(rip) == rip

KeepFirstPending(old, c) ==
    IF old = NoPending THEN [document |-> c.document, force |-> c.force] ELSE old
\* this.pendingRefresh = { document, force }
KeepPendingOfOtherDocument(old, c) ==
    IF old # NoPending /\ old.document # c.document THEN old ELSE c
RecordPending(old, c) == [document |-> c.document, force |-> c.force]

KeepClearTimeout(ct) == ct
\* clearTimeout(this.clearTimeout); this.clearTimeout = null
CancelClearTimeout(ct) == NoTimer

ArmClearTimeoutNow(n) == [left |-> 0, age |-> 0, armedBy |-> n]
\* this.clearTimeout = setTimeout(..., 150)
ArmClearTimeout(n) == [left |-> GraceDelay, age |-> 0, armedBy |-> n]

PreserveNever(force, isTransFile) == FALSE
\* if (!force && isTransFile)
PreservesContext(force, isTransFile) == ~force /\ isTransFile

RECURSIVE Invoke(_, _)
RECURSIVE FinallyBlock(_, _)

\* finally { refreshInProgress = false; if (pendingRefresh) {...; await this.refresh(...)} }
FinallyBlock(st, self) ==
    LET st1 == [st EXCEPT !.rip = FALSE]
    IN  IF st1.pending = NoPending
        THEN [st1 EXCEPT !.calls = Unwind(@, self)]
        ELSE Invoke([st1 EXCEPT !.pending = NoPending, !.calls[self].pc = "finally"],
                    NewCall("trailing", st1.pending.document, st1.pending.force, self))

FinallyLeavesPending(st, self, threw) ==
    LET st1 == [st EXCEPT !.rip = FALSE] IN [st1 EXCEPT !.calls = Unwind(@, self)]
FinallyOnlyOnSuccess(st, self, threw) ==
    IF threw THEN [st EXCEPT !.calls = Unwind(@, self)] ELSE FinallyBlock(st, self)
\* try { ... } finally { ... }: the finally block runs however the body is left
TryFinally(st, self, threw) == FinallyBlock(st, self)

\* what became of the timer each call armed: clearTimeout(this.clearTimeout)
\* cancels the timer of the call that armed it
CancelTimerOf(cs, ct) ==
    IF ct # NoTimer /\ CancelClearTimeout(ct) = NoTimer
    THEN [cs EXCEPT ![ct.armedBy].timer = "cancelled"]
    ELSE cs

\* refresh(document, force) up to its first await
Invoke(st, c) ==
    LET n == Len(st.calls) + 1
    IN  IF InFlight(st.rip)
        THEN [st EXCEPT
                !.pending = RecordPending(st.pending, c),
                !.calls = Unwind(Append(st.calls,
                            [c EXCEPT !.result = "recorded",
                                      !.during = MaxOf(RunningCalls(st.calls))]), n)]
        ELSE IF c.document # NoDoc
             THEN [st EXCEPT
                     !.rip = TRUE,
                     !.ct = CancelClearTimeout(st.ct),
                     !.calls = Append(CancelTimerOf(st.calls, st.ct),
                                      [c EXCEPT !.pc = "isTranslationFile"])]
             ELSE TryFinally(
                    [st EXCEPT
                       !.rip = TRUE,
                       !.ct = ArmClearTimeout(n),
                       !.calls = Append(CancelTimerOf(st.calls, st.ct),
                                        [c EXCEPT !.result = "armed", !.timer = "live"])],
                    n, FALSE)

SetProvider(st) ==
    /\ refreshInProgress' = st.rip
    /\ pendingRefresh' = st.pending
    /\ clearTimeout' = st.ct
    /\ calls' = st.calls
    /\ passStartView' = IF RunningCalls(st.calls) \ RunningCalls(calls) # {}
                        THEN View' ELSE passStartView

UNCHANGEDView == UNCHANGED <<translationData, currentFilePath, currentTranslations, currentLocale>>

ExternalCalls(cs) == {i \in 1..Len(cs) : cs[i].kind = "request"}

\* a caller invokes refresh(document, force)
refresh(document, force) ==
    /\ UNCHANGEDView
    /\ UNCHANGED fired
    /\ SetProvider(Invoke(ProviderState, NewCall("request", document, force, 0)))

\* SidebarService.getAvailableLocales: the locales of the project settings,
\* else the names of the files in messages/, else 'en'
getAvailableLocales(settings, files) ==
    LET detected == SelectSeq(<<"de", "en", "fr">>, LAMBDA locale : files[locale].exists)
    IN  IF Truthy(settings) THEN settings.locales
        ELSE IF detected # << >> THEN detected
        ELSE <<"en">>

\* the locale rows of a key: the locales in which it has a value, in order
RECURSIVE LocaleRows(_, _, _)
LocaleRows(files, locales, key) ==
    IF locales = << >> THEN << >>
    ELSE LET locale == Head(locales)
             translations == loadTranslationsForLocale(files, locale)
             translationValue == IF Truthy(translations)
                                 THEN getTranslation(translations, key) ELSE JsNull
             rest == LocaleRows(files, Tail(locales), key)
         IN  IF translationValue # JsNull
             THEN <<[locale |-> locale, value |-> translationValue]>> \o rest
             ELSE rest

\* the key of the call m.greeting() that every source document contains
GreetingKey == Key("greeting", <<"greeting">>)

\* sidebarService.getTranslationData(document) over the given files: a key
\* without a value in any locale is left out
getTranslationData(document, text, ws, files, settings) ==
    LET rows == LocaleRows(files, getAvailableLocales(settings, files), GreetingKey)
    IN  IF ws /\ document \in SourceDocs /\ rows # << >>
        THEN <<[file |-> document, text |-> text, key |-> GreetingKey, rows |-> rows]>>
        ELSE NoData

\* sidebarService.getTranslationData(document): the text is read when it is called
DataOf(document, text, ws) ==
    getTranslationData(document, text, ws, localeFiles, inlangSettings)

\* `await isTranslationFile(document)` resumes
ResumeIsTranslationFile(self) ==
    /\ calls[self].pc = "isTranslationFile"
    /\ IF PreservesContext(calls[self].force, isTranslationFile(calls[self].document, workspaceOpen))
       THEN /\ fired' = fired + 1
            /\ UNCHANGEDView
            /\ SetProvider(TryFinally(
                 [ProviderState EXCEPT !.calls[self].result = "preserved"], self, FALSE))
       ELSE /\ calls' = [calls EXCEPT
                           ![self].pc = "getTranslationData",
                           ![self].text = docText[calls[self].document]]
            /\ UNCHANGEDView
            /\ UNCHANGED <<refreshInProgress, pendingRefresh, clearTimeout, fired,
                           passStartView>>

\* `await getTranslationData(document)` resumes; loadTranslationsForLocale is called
ResumeGetTranslationData(self) ==
    /\ calls[self].pc = "getTranslationData"
    /\ LET data == DataOf(calls[self].document, calls[self].text, workspaceOpen)
       IN  IF workspaceOpen
           THEN /\ calls' = [calls EXCEPT
                               ![self].pc = "loadTranslationsForLocale",
                               ![self].data = data]
                /\ UNCHANGEDView
                /\ UNCHANGED <<refreshInProgress, pendingRefresh, clearTimeout, fired,
                               passStartView>>
           ELSE /\ translationData' = data
                /\ currentFilePath' = calls[self].document
                /\ UNCHANGED <<currentTranslations, currentLocale>>
                /\ fired' = fired + 1
                /\ SetProvider(TryFinally(
                     [ProviderState EXCEPT !.calls[self].result = "published",
                                           !.calls[self].data = data], self, FALSE))

\* the same, where currentFilePath is not assigned with the other fields
ResumeLoadTranslationsKeepingFile(self) ==
    /\ calls[self].pc = "loadTranslationsForLocale"
    /\ currentTranslations' = [locale |-> DefaultLocale,
                               data |-> loadTranslationsForLocale(localeFiles, DefaultLocale)]
    /\ currentLocale' = DefaultLocale
    /\ translationData' = calls[self].data
    /\ UNCHANGED currentFilePath
    /\ fired' = fired + 1
    /\ SetProvider(TryFinally(
         [ProviderState EXCEPT !.calls[self].result = "published"], self, FALSE))
\* `await loadTranslationsForLocale(...)` resumes: the state update
ResumeLoadTranslations(self) ==
    /\ calls[self].pc = "loadTranslationsForLocale"
    /\ currentTranslations' = [locale |-> DefaultLocale,
                               data |-> loadTranslationsForLocale(localeFiles, DefaultLocale)]
    /\ currentLocale' = DefaultLocale
    /\ translationData' = calls[self].data
    /\ currentFilePath' = calls[self].document
    /\ fired' = fired + 1
    /\ SetProvider(TryFinally(
         [ProviderState EXCEPT !.calls[self].result = "published"], self, FALSE))

\* `await loadTranslationsForLocale(...)` rejects: resolveTranslationPath threw
RejectLoadTranslations(self) ==
    /\ calls[self].pc = "loadTranslationsForLocale"
    /\ UNCHANGEDView
    /\ UNCHANGED fired
    /\ SetProvider(TryFinally(
         [ProviderState EXCEPT !.calls[self].result = "threw"], self, TRUE))

\* the callback of the clear branch's setTimeout
GraceFire ==
    /\ clearTimeout # NoTimer
    /\ clearTimeout.left = 0
    /\ translationData' = NoData
    /\ currentFilePath' = NoFile
    /\ currentTranslations' = NoTranslations
    /\ currentLocale' = NoLocale
    /\ fired' = fired + 1
    /\ clearTimeout' = NoTimer
    /\ calls' = [calls EXCEPT ![clearTimeout.armedBy].timer = "fired"]
    /\ UNCHANGED <<refreshInProgress, pendingRefresh, passStartView>>

\* TranslationKeysProvider.getChildren: the root nodes, each with the value of
\* its key in the preloaded currentTranslations, and their locale rows
RootNodes(data, translations) ==
    [n \in 1..Len(data) |->
        [key |-> data[n].key,
         currentValue |-> IF Truthy(translations)
                          THEN getTranslation(translations, data[n].key)
                          ELSE JsNull,
         children |-> data[n].rows]]
getChildren == RootNodes(translationData, currentTranslations.data)

\* a locale data file is written, replaced or deleted on disk while passes
\* run; the passes in flight are marked
LocaleFileWritten(locale, file) ==
    /\ file # localeFiles[locale]
    /\ localeFiles' = [localeFiles EXCEPT ![locale] = file]
    /\ calls' = [i \in 1..Len(calls) |->
                    IF calls[i].pc \in BodyPcs THEN [calls[i] EXCEPT !.dirty = TRUE]
                    ELSE calls[i]]
    /\ pipeline' = IF pipeline.pc = "processing" THEN [pipeline EXCEPT !.dirty = TRUE]
                   ELSE pipeline
    /\ UNCHANGEDView
    /\ UNCHANGED <<refreshInProgress, pendingRefresh, clearTimeout, fired, passStartView,
                   activatorVars, workspaceOpen, inlangSettings, resolver, scanner, localeChoice, projectSelector, legacy, extraction, docText,
                   activeEditor>>

----------------------------------------------------------------------------
(* ExtensionActivator: debounced text changes and saves *)

TimerIds(ts) == {t.id : t \in ts}
TimersOf(ts, document) == {t \in ts : t.doc = document}
\* the handle setTimeout returns: one no live timer and no map entry has
FreshId(ts, map) ==
    CHOOSE n \in 1..(Cardinality(ts) + Cardinality(Docs) + 1) :
        /\ n \notin TimerIds(ts)
        /\ \A d \in Docs : map[d] # n

\* one TextDocumentContentChangeEvent: lines spanned by the replaced range, its
\* length, and the inserted text
Change(lineChange, rangeLength, text) ==
    [lineChange |-> lineChange, rangeLength |-> rangeLength, text |-> text]
\* the contentChanges of the text-changed events the model delivers
ContentChanges ==
    { << >>,
      <<Change(0, 0, <<"a">>)>>,
      <<Change(0, 0, <<"m">>)>>,
      <<Change(0, 0, <<"m", ".">>)>>,
      <<Change(0, 0, <<"(", ")">>)>>,
      <<Change(0, 0, <<"\n">>)>>,
      <<Change(0, 1, << >>)>>,
      <<Change(1, 3, <<"b">>)>>,
      <<Change(0, 0, <<"a">>), Change(0, 0, <<"x", "m", ".">>)>> }

\* String.prototype.includes
Includes(text, pat) ==
    \E i \in 0..(Len(text) - Len(pat)) : SubSeq(text, i + 1, i + Len(pat)) = pat

UpdateForEveryChange(changes) == TRUE
\* ExtensionActivator.shouldUpdateForChange
shouldUpdateForChange(changes) ==
    /\ Len(changes) # 0
    /\ \E i \in 1..Len(changes) :
          LET change == changes[i]
              hasNewlines == Includes(change.text, <<"\n">>) \/ Includes(change.text, <<"\r">>)
              oldText == change.rangeLength > 0
          IN  \/ change.lineChange > 0
              \/ hasNewlines
              \/ oldText
              \/ Includes(change.text, <<"m", ".">>)
              \/ Includes(change.text, <<"(", ")">>)

KeepExistingTimeout(ts, h) == ts
\* debounceDocumentUpdate: if (existingTimeout) clearTimeout(existingTimeout)
ClearExistingTimeout(ts, h) == {t \in ts : t.id # h}

KeepPendingUpdate(ts, h) == ts
\* onDidSaveTextDocument: if (existingTimeout) clearTimeout(existingTimeout)
CancelPendingUpdate(ts, h) == {t \in ts : t.id # h}

\* ExtensionActivator.debounceDocumentUpdate
debounceDocumentUpdate(documentUri) ==
    LET existingTimeout == documentUpdateTimeouts[documentUri]
        left == ClearExistingTimeout(timers, existingTimeout)
        timeout == FreshId(left, documentUpdateTimeouts)
    IN  /\ timers' = left \cup {[id |-> timeout, doc |-> documentUri, left |-> UpdateDelay]}
        /\ documentUpdateTimeouts' = [documentUpdateTimeouts EXCEPT ![documentUri] = timeout]

NewHandler(kind, document, cancelled) ==
    [kind |-> kind, document |-> document, cancelled |-> cancelled,
     pc |-> "loadTranslationsForLocale", text |-> docText[document],
     force |-> FALSE, active |-> activeEditor, call |-> 0, arrived |-> 0]

\* EditorService.processDocument up to its first await: the decorations of the
\* document are cleared and its text is read
BeginProcessDocument(kind, document, cancelled) ==
    /\ handlers' = Append(handlers, NewHandler(kind, document, cancelled))
    /\ activeDecorations' = [activeDecorations EXCEPT ![document] = -1]

Events == track.events
Touch(d, changes, accepted) ==
    [track EXCEPT !.events = @ + 1,
                  !.sinceEvent[d] = IF Len(changes) # 0 THEN 0 ELSE @,
                  !.sinceAccepted[d] = IF accepted THEN 0 ELSE @,
                  !.acceptedText[d] = IF accepted THEN docText'[d] ELSE @,
                  !.burst[d] = IF accepted THEN @ + 1 ELSE @,
                  !.forced[d] = IF accepted THEN FALSE ELSE @,
                  !.saved[d] = IF accepted THEN FALSE ELSE @]

\* onDidChangeTextDocument: the document's text has changed
TextChanged(document, changes) ==
    /\ Events < MaxEvents
    /\ docText' = [docText EXCEPT ![document] = IF Len(changes) = 0 THEN @ ELSE @ + 1]
    /\ LET accepted == /\ realtimeUpdates
                       /\ isSupportedDocument(document)
                       /\ shouldUpdateForChange(changes)
       IN  /\ IF accepted
              THEN debounceDocumentUpdate(document)
              ELSE UNCHANGED <<timers, documentUpdateTimeouts>>
           /\ track' = Touch(document, changes, accepted)
    /\ UNCHANGED <<configVars, handlers, activeDecorations, codeLens, debounceLog,
                   staticEnv, activeEditor, providerVars>>

SkipEnabledCheck(enabled) == TRUE
\* the debounce callback's `if (!this.isRealtimeUpdatesEnabled()) return;`
StillEnabled(enabled) == enabled

\* the callback of debounceDocumentUpdate's setTimeout
DebounceFire(t) ==
    /\ t \in timers
    /\ t.left = 0
    /\ timers' = timers \ {t}
    /\ documentUpdateTimeouts' = [documentUpdateTimeouts EXCEPT ![t.doc] = 0]
    /\ IF StillEnabled(realtimeUpdates)
       THEN BeginProcessDocument("debounce", t.doc, FALSE)
       ELSE UNCHANGED <<handlers, activeDecorations>>
    /\ debounceLog' = Append(debounceLog,
         [doc |-> t.doc, enabled |-> realtimeUpdates,
          ran |-> Len(handlers') > Len(handlers), text |-> docText[t.doc],
          handler |-> Len(handlers'), acceptedText |-> track.acceptedText[t.doc],
          sinceAccepted |-> track.sinceAccepted[t.doc],
          sinceEvent |-> track.sinceEvent[t.doc],
          burst |-> track.burst[t.doc], saved |-> track.saved[t.doc],
          forced |-> track.forced[t.doc]])
    /\ track' = [track EXCEPT !.burst[t.doc] = 0]
    /\ UNCHANGED <<configVars, codeLens, envVars, providerVars>>

\* onDidSaveTextDocument
DocumentSaved(document) ==
    /\ Events < MaxEvents
    /\ IF isSupportedDocument(document)
       THEN LET existingTimeout == documentUpdateTimeouts[document]
            IN  /\ timers' = IF existingTimeout # 0
                             THEN CancelPendingUpdate(timers, existingTimeout) ELSE timers
                /\ documentUpdateTimeouts' = [documentUpdateTimeouts EXCEPT ![document] = 0]
                /\ BeginProcessDocument("save", document, existingTimeout # 0)
       ELSE UNCHANGED <<timers, documentUpdateTimeouts, handlers, activeDecorations>>
    /\ track' = [track EXCEPT !.events = @ + 1,
                              !.saves[document] = @ + 1,
                              !.saved[document] = TRUE,
                              !.burst[document] = 0]
    /\ UNCHANGED <<configVars, codeLens, debounceLog, envVars, providerVars>>

\* onDidChangeActiveTextEditor; editor = NoDoc when no editor is active
ActiveEditorChanged(editor) ==
    /\ Events < MaxEvents
    /\ track' = [track EXCEPT !.events = @ + 1]
    /\ IF editor # NoDoc /\ isSupportedDocument(editor)
       THEN /\ BeginProcessDocument("editor", editor, FALSE)
            /\ UNCHANGED providerVars
       ELSE IF editor # NoDoc
       THEN \* else if (editor && (await isTranslationFile(editor.document)))
            /\ handlers' = Append(handlers,
                   [NewHandler("editor", editor, FALSE) EXCEPT
                       !.pc = "isTranslationFile", !.text = -1])
            /\ UNCHANGED <<activeDecorations, providerVars>>
       ELSE /\ UNCHANGED <<handlers, activeDecorations>>
            /\ refresh(NoDoc, FALSE)
    /\ activeEditor' = editor
    /\ UNCHANGED <<documentUpdateTimeouts, timers, configVars, codeLens, debounceLog,
                   staticEnv, docText>>

\* onDidChangeActiveTextEditor: `await isTranslationFile(editor.document)` resumes
ResumeEditorIsTranslationFile(h) ==
    /\ handlers[h].pc = "isTranslationFile"
    /\ handlers' = [handlers EXCEPT ![h].pc = "returned"]
    /\ IF isTranslationFile(handlers[h].document, workspaceOpen)
       THEN refresh(handlers[h].document, FALSE)
       ELSE refresh(NoDoc, FALSE)
    /\ UNCHANGED <<documentUpdateTimeouts, timers, configVars, activeDecorations,
                   codeLens, track, debounceLog, envVars>>

\* the user changes the setting poirot.realtimeUpdates: getConfiguration() returns
\* the new value from now on, the change event is delivered later
SettingChanged(enabled) ==
    /\ Events < MaxEvents
    /\ ~configChangePending
    /\ enabled # realtimeUpdates
    /\ realtimeUpdates' = enabled
    /\ configChangePending' = TRUE
    /\ track' = [track EXCEPT !.events = @ + 1]
    /\ UNCHANGED <<documentUpdateTimeouts, timers, handlers, activeDecorations, codeLens,
                   debounceLog, envVars, providerVars>>

\* onDidChangeConfiguration for poirot.realtimeUpdates; enabled is what
\* isRealtimeUpdatesEnabled() returns in the handler
RealtimeUpdatesChanged(enabled) ==
    /\ configChangePending
    /\ enabled = realtimeUpdates
    /\ configChangePending' = FALSE
    /\ IF ~enabled
       THEN /\ timers' = {t \in timers : \A d \in Docs : documentUpdateTimeouts[d] # t.id}
            /\ documentUpdateTimeouts' = [d \in Docs |-> 0]
            /\ track' = [track EXCEPT !.burst = [d \in Docs |-> 0]]
       ELSE /\ UNCHANGED <<timers, documentUpdateTimeouts, track>>
    /\ UNCHANGED <<realtimeUpdates, handlers, activeDecorations, codeLens, debounceLog,
                   envVars, providerVars>>

\* processDocument: `await loadTranslationsForLocale(...)` resumes
ResumeProcessLoad(h) ==
    /\ handlers[h].pc = "loadTranslationsForLocale"
    /\ handlers' = [handlers EXCEPT ![h].pc = "processTranslationCallsWithWarnings"]
    /\ UNCHANGED <<documentUpdateTimeouts, timers, configVars, activeDecorations,
                   codeLens, track, debounceLog, envVars, providerVars>>

\* processDocument: `await processTranslationCallsWithWarnings(...)` resumes; the
\* decorations and the CodeLens results of the text that was read are applied
ResumeProcessCalls(h) ==
    /\ handlers[h].pc = "processTranslationCallsWithWarnings"
    /\ handlers' = [handlers EXCEPT ![h].pc = "processDocument"]
    /\ activeDecorations' = [activeDecorations EXCEPT
                               ![handlers[h].document] = handlers[h].text]
    /\ codeLens' = [document |-> handlers[h].document, text |-> handlers[h].text]
    /\ UNCHANGED <<documentUpdateTimeouts, timers, configVars, track, debounceLog,
                   envVars, providerVars>>

\* the handler's `await processDocument(document)` resumes: it calls
\* translationKeysProvider.refresh(document)
ResumeHandler(h) ==
    /\ handlers[h].pc = "processDocument"
    /\ handlers' = [handlers EXCEPT ![h].pc = "returned"]
    /\ refresh(handlers[h].document, handlers[h].force)
    /\ track' = [track EXCEPT !.forced[handlers[h].document] = @ \/ handlers[h].force]
    /\ UNCHANGED <<documentUpdateTimeouts, timers, configVars, activeDecorations,
                   codeLens, debounceLog, envVars>>

----------------------------------------------------------------------------
(* ExtensionActivator: the label click command and the locale file watchers *)

ClearedByForcedRefresh(ts, h) == {t \in ts : t.id # h}
\* the callers of refresh(document, true) do not touch documentUpdateTimeouts: the
\* document's debounce timeout h stays pending
PendingAfterForcedRefresh(ts, h) == ts

\* poirot.clickTranslationLabel(translationKey, filePath) up to
\* `await executeCommand('workbench.view.extension.poirot')`
LabelClicked(filePath) ==
    /\ Events < MaxEvents
    /\ handlers' = Append(handlers,
           [NewHandler("click", filePath, FALSE) EXCEPT !.pc = "executeCommand", !.text = -1])
    /\ track' = [track EXCEPT !.events = @ + 1]
    /\ UNCHANGED <<documentUpdateTimeouts, timers, configVars, activeDecorations, codeLens,
                   debounceLog, envVars, providerVars>>

\* poirot.clickTranslationLabel after executeCommand: the forced refresh of the
\* active document, if that is the clicked file
ResumeLabelClick(h) ==
    /\ handlers[h].pc = "executeCommand"
    /\ IF ~workspaceOpen
       THEN /\ handlers' = [handlers EXCEPT ![h].pc = "returned"]
            /\ UNCHANGED <<track, providerVars, timers>>
       ELSE IF activeEditor # NoDoc /\ activeEditor = handlers[h].document
       THEN /\ refresh(activeEditor, TRUE)
            /\ handlers' = [handlers EXCEPT ![h].pc = "openTranslationFile",
                                            ![h].force = TRUE,
                                            ![h].call = Len(calls')]
            /\ track' = [track EXCEPT !.forced[activeEditor] = TRUE]
            /\ timers' = PendingAfterForcedRefresh(timers, documentUpdateTimeouts[activeEditor])
       ELSE /\ handlers' = [handlers EXCEPT ![h].pc = "openTranslationFile"]
            /\ UNCHANGED <<track, providerVars, timers>>
    /\ UNCHANGED <<documentUpdateTimeouts, configVars, activeDecorations, codeLens,
                   debounceLog, envVars>>

\* poirot.clickTranslationLabel: `await refresh(...)` has returned and
\* openTranslationFile has shown the locale file (the editor switch is delivered
\* as an active-editor-changed event)
ResumeOpenTranslationFile(h) ==
    /\ handlers[h].pc = "openTranslationFile"
    /\ IF handlers[h].call = 0 THEN TRUE ELSE calls[handlers[h].call].pc = "returned"
    /\ handlers' = [handlers EXCEPT ![h].pc = "returned"]
    /\ UNCHANGED <<documentUpdateTimeouts, timers, configVars, activeDecorations, codeLens,
                   track, debounceLog, envVars, providerVars>>

\* currentFilePath && translationData.length > 0
hasPreservedContext == currentFilePath # NoFile /\ Len(translationData) > 0

\* the same, where the preserved context is not looked at
TranslationFileChangedForActiveEditor(locale) ==
    /\ Events < MaxEvents
    /\ track' = [track EXCEPT !.events = @ + 1]
    /\ IF workspaceOpen /\ activeEditor # NoDoc /\ isSupportedDocument(activeEditor)
       THEN BeginProcessDocument("watch", activeEditor, FALSE)
       ELSE UNCHANGED <<handlers, activeDecorations>>
    /\ UNCHANGED <<documentUpdateTimeouts, timers, configVars, codeLens, debounceLog,
                   envVars, providerVars>>
\* handleTranslationFileChange(locale), called by the watchers' onDidChange,
\* onDidCreate and onDidDelete, up to its first await
TranslationFileChanged(locale) ==
    /\ Events < MaxEvents
    /\ track' = [track EXCEPT !.events = @ + 1]
    /\ IF ~workspaceOpen
       THEN UNCHANGED <<handlers, activeDecorations>>
       ELSE IF hasPreservedContext
       THEN /\ handlers' = Append(handlers,
                   [NewHandler("watch", currentFilePath, FALSE) EXCEPT
                       !.pc = "openTextDocument", !.text = -1, !.force = TRUE,
                       !.arrived = IF refreshInProgress THEN -1 ELSE Len(calls)])
            /\ UNCHANGED activeDecorations
       ELSE IF activeEditor # NoDoc /\ isSupportedDocument(activeEditor)
       THEN BeginProcessDocument("watch", activeEditor, FALSE)
       ELSE UNCHANGED <<handlers, activeDecorations>>
    /\ UNCHANGED <<documentUpdateTimeouts, timers, configVars, codeLens, debounceLog,
                   envVars, providerVars>>

\* handleTranslationFileChange: `await openTextDocument(preservedFilePath)`
\* resumes; the active editor is the one read when the event arrived
ResumeOpenTextDocument(h) ==
    /\ handlers[h].pc = "openTextDocument"
    /\ IF handlers[h].active # NoDoc /\ handlers[h].active = handlers[h].document
       THEN /\ handlers' = [handlers EXCEPT
                              ![h].pc = "loadTranslationsForLocale",
                              ![h].text = docText[handlers[h].document]]
            /\ activeDecorations' = [activeDecorations EXCEPT ![handlers[h].document] = -1]
            /\ UNCHANGED <<track, providerVars, timers>>
       ELSE /\ handlers' = [handlers EXCEPT ![h].pc = "returned"]
            /\ refresh(handlers[h].document, TRUE)
            /\ track' = [track EXCEPT !.forced[handlers[h].document] = TRUE]
            /\ timers' = PendingAfterForcedRefresh(timers,
                             documentUpdateTimeouts[handlers[h].document])
            /\ UNCHANGED activeDecorations
    /\ UNCHANGED <<documentUpdateTimeouts, configVars, codeLens, debounceLog, envVars>>

\* handleTranslationFileChange: openTextDocument rejects (the preserved file is
\* gone); the catch block fires the tree event
RejectOpenTextDocument(h) ==
    /\ handlers[h].pc = "openTextDocument"
    /\ handlers' = [handlers EXCEPT ![h].pc = "returned"]
    /\ fired' = fired + 1
    /\ UNCHANGEDView
    /\ UNCHANGED <<refreshInProgress, pendingRefresh, clearTimeout, calls, passStartView>>
    /\ UNCHANGED <<documentUpdateTimeouts, timers, configVars, activeDecorations, codeLens,
                   track, debounceLog, envVars>>

----------------------------------------------------------------------------
(* Time *)

Less(n) == IF n > TimeStep THEN n - TimeStep ELSE 0
More(n, cap) == IF n + TimeStep > cap THEN cap ELSE n + TimeStep

Elapse(t) == IF t = NoTimer THEN t
             ELSE [t EXCEPT !.left = Less(@), !.age = More(@, GraceDelay)]

\* TimeStep milliseconds pass; a timer that is due fires first
Tick ==
    /\ clearTimeout # NoTimer \/ timers # {}
    /\ clearTimeout = NoTimer \/ clearTimeout.left > 0
    /\ \A t \in timers : t.left > 0
    /\ clearTimeout' = Elapse(clearTimeout)
    /\ timers' = {[t EXCEPT !.left = Less(@)] : t \in timers}
    /\ track' = [track EXCEPT
                   !.sinceEvent = [d \in Docs |-> More(track.sinceEvent[d], UpdateDelay)],
                   !.sinceAccepted = [d \in Docs |-> More(track.sinceAccepted[d], UpdateDelay)]]
    /\ UNCHANGEDView
    /\ UNCHANGED <<refreshInProgress, pendingRefresh, calls, fired, passStartView>>
    /\ UNCHANGED <<documentUpdateTimeouts, configVars, handlers, activeDecorations,
                   codeLens, debounceLog, envVars>>

----------------------------------------------------------------------------
CoreInit ==
    /\ refreshInProgress = FALSE
    /\ pendingRefresh = NoPending
    /\ clearTimeout = NoTimer
    /\ translationData = NoData
    /\ currentFilePath = NoFile
    /\ currentTranslations = NoTranslations
    /\ currentLocale = NoLocale
    /\ calls = << >>
    /\ fired = 0
    /\ passStartView = ClearedView
    /\ documentUpdateTimeouts = [d \in Docs |-> 0]
    /\ timers = {}
    /\ realtimeUpdates = TRUE
    /\ configChangePending = FALSE
    /\ handlers = << >>
    /\ activeDecorations = [d \in Docs |-> -1]
    /\ codeLens = [document |-> NoDoc, text |-> -1]
    /\ track = [events |-> 0,
                sinceEvent |-> [d \in Docs |-> UpdateDelay],
                sinceAccepted |-> [d \in Docs |-> UpdateDelay],
                acceptedText |-> [d \in Docs |-> 0],
                burst |-> [d \in Docs |-> 0],
                forced |-> [d \in Docs |-> FALSE],
                saves |-> [d \in Docs |-> 0],
                saved |-> [d \in Docs |-> FALSE]]
    /\ debounceLog = << >>
    /\ workspaceOpen \in BOOLEAN
    /\ docText = [d \in Docs |-> 0]

\* no resolution pipeline runs; the project lists its locales and the default
\* locale has a value for the key of the documents
NoPipeline ==
    /\ localeFiles = [locale \in Locales |->
                        IF locale = DefaultLocale
                        THEN Parsed(Catalog("greeting", Str(Greeting[locale])))
                        ELSE Absent]
    /\ inlangSettings = [type |-> "object", locales |-> availableLocales]
    /\ pipeline = IdlePipeline
    /\ resolver = IdleResolver
    /\ scanner = IdleScanner
    /\ localeChoice = IdleChoice
    /\ OtherProvidersIdle

Init == CoreInit /\ activeEditor = NoDoc /\ NoPipeline

RequestUpTo(max) ==
    /\ Cardinality(ExternalCalls(calls)) < max
    /\ \E document \in Docs \cup {NoDoc}, force \in BOOLEAN : refresh(document, force)
    /\ UNCHANGED <<activatorVars, envVars>>

PassStep ==
    /\ \E self \in 1..Len(calls) :
          \/ ResumeIsTranslationFile(self)
          \/ ResumeGetTranslationData(self)
          \/ ResumeLoadTranslations(self)
          \/ RejectLoadTranslations(self)
    /\ UNCHANGED <<activatorVars, envVars>>

GraceStep ==
    /\ GraceFire
    /\ UNCHANGED <<activatorVars, envVars>>

EditorEvent ==
    \/ \E document \in Docs, changes \in ContentChanges : TextChanged(document, changes)
    \/ \E document \in Docs : DocumentSaved(document)
    \/ \E editor \in Docs \cup {NoDoc} : ActiveEditorChanged(editor)
    \/ \E enabled \in BOOLEAN : SettingChanged(enabled)

HandlerStep ==
    \/ \E t \in timers : DebounceFire(t)
    \/ \E enabled \in BOOLEAN : RealtimeUpdatesChanged(enabled)
    \/ \E h \in 1..Len(handlers) :
          \/ ResumeProcessLoad(h)
          \/ ResumeProcessCalls(h)
          \/ ResumeHandler(h)
          \/ ResumeEditorIsTranslationFile(h)
          \/ ResumeLabelClick(h)
          \/ ResumeOpenTranslationFile(h)
          \/ ResumeOpenTextDocument(h)
          \/ RejectOpenTextDocument(h)

Request == RequestUpTo(MaxRequests)

Next == Request \/ PassStep \/ GraceStep \/ Tick

\* the provider under arbitrary callers of refresh()
Spec == Init /\ [][Next]_vars

EventNext == EditorEvent \/ HandlerStep \/ PassStep \/ GraceStep \/ Tick

\* the provider driven by the activator's editor event handlers
EventSpec == Init /\ [][EventNext]_vars

\* an editor is already showing a document when the extension starts
CommandInit == CoreInit /\ activeEditor \in SourceDocs \cup {NoDoc} /\ NoPipeline

CommandEvent ==
    \/ \E document \in SourceDocs, changes \in ContentChanges : TextChanged(document, changes)
    \/ \E filePath \in SourceDocs : LabelClicked(filePath)
    \/ \E enabled \in BOOLEAN : SettingChanged(enabled)
    \/ \E i \in 1..Len(availableLocales) : TranslationFileChanged(availableLocales[i])

CommandNext == CommandEvent \/ HandlerStep \/ PassStep \/ Tick

\* the label click command and the locale file watchers, with text changes
CommandSpec == CommandInit /\ [][CommandNext]_vars

FairRequest == RequestUpTo(MaxFairRequests)

FairNext == FairRequest \/ PassStep \/ GraceStep \/ Tick

\* finitely many requests, and every awaited operation of a pass completes
FairSpec == Init /\ [][FairNext]_vars /\ WF_vars(PassStep)

\* the resolution pipeline over every project state and every scanned text
PipelineInit ==
    /\ CoreInit
    /\ workspaceOpen
    /\ activeEditor = NoDoc
    /\ localeFiles \in [Locales -> UNION {LocaleFileStates(locale) : locale \in Locales}]
    /\ \A locale \in Locales : localeFiles[locale] \in LocaleFileStates(locale)
    /\ inlangSettings \in SettingsStates
    /\ pipeline = IdlePipeline
    /\ resolver = IdleResolver
    /\ scanner = IdleScanner
    /\ localeChoice = IdleChoice
    /\ OtherProvidersIdle
PipelineNext ==
    \/ \E translationCalls \in CallLists, active \in ActiveLocales :
          StartPipeline(translationCalls, active)
    \/ ProcessCall
    \/ ReturnResults
PipelineSpec == PipelineInit /\ [][PipelineNext]_vars

\* the resolution pipeline while the locale data files change on disk
DiskInit ==
    /\ CoreInit
    /\ workspaceOpen
    /\ activeEditor = NoDoc
    /\ localeFiles \in [Locales -> UNION {DiskFileStates(locale) : locale \in Locales}]
    /\ \A locale \in Locales : localeFiles[locale] \in DiskFileStates(locale)
    /\ inlangSettings \in {settings \in SettingsStates :
                              Truthy(settings) /\ settings.locales[1] # "de"}
    /\ pipeline = IdlePipeline
    /\ resolver = IdleResolver
    /\ scanner = IdleScanner
    /\ localeChoice = IdleChoice
    /\ OtherProvidersIdle
DiskNext ==
    \/ \E translationCalls \in CallLists, active \in ActiveLocales :
          StartPipeline(translationCalls, active)
    \/ ProcessCall
    \/ ReturnResults
    \/ \E locale \in Locales :
          \E file \in DiskFileStates(locale) : LocaleFileChanged(locale, file)
DiskSpec == DiskInit /\ [][DiskNext]_vars

\* the tree and the inline hints of one source document while the files of the
\* project's locales are rewritten on disk
CacheInit == CoreInit /\ workspaceOpen /\ activeEditor = NoDoc /\ NoPipeline
CacheRequest ==
    /\ Cardinality(ExternalCalls(calls)) < MaxFairRequests
    /\ \E document \in {"src/a.ts"} \cup LocaleDocs, force \in BOOLEAN :
          refresh(document, force)
    /\ UNCHANGED <<activatorVars, envVars>>
CacheNext ==
    \/ CacheRequest
    \/ PassStep
    \/ /\ localeFiles[DefaultLocale] \notin DiskFileStates(DefaultLocale)
       /\ \E file \in DiskFileStates(DefaultLocale) : LocaleFileWritten(DefaultLocale, file)
    \/ StartPipeline(<<CHOOSE call \in ScannedCalls : call.methodName = GreetingKey>>,
                     DefaultLocale)
    \/ ProcessCall
    \/ ReturnResults
CacheSpec == CacheInit /\ [][CacheNext]_vars

\* the resolution pipeline run twice on the same text
RerunNext == PipelineNext \/ RunAgain
RerunSpec == PipelineInit /\ [][RerunNext]_vars

\* one choice of the active locale under every configuration and settings file
ChoiceInit ==
    /\ CoreInit
    /\ activeEditor = NoDoc
    /\ localeFiles = [locale \in Locales |-> Absent]
    /\ inlangSettings = JsNull
    /\ pipeline = IdlePipeline
    /\ resolver = IdleResolver
    /\ scanner = IdleScanner
    /\ \E configLocale \in ConfigLocales, settingsFile \in SettingsFiles :
          localeChoice = [pc |-> "start", configLocale |-> configLocale,
                          settingsFile |-> settingsFile, result |-> Undefined]
    /\ OtherProvidersIdle
ChoiceNext == CheckConfiguration \/ CheckInlangSettings \/ DefaultToEnglish
ChoiceSpec == ChoiceInit /\ [][ChoiceNext]_vars

\* the project selector under arbitrary callers of refresh(), every scan
\* completing
ProjectInit ==
    /\ CoreInit
    /\ activeEditor = NoDoc
    /\ localeFiles = [locale \in Locales |-> Absent]
    /\ inlangSettings = JsNull
    /\ pipeline = IdlePipeline
    /\ resolver = IdleResolver
    /\ scanner = IdleScanner
    /\ localeChoice = IdleChoice
    /\ OtherProvidersIdle
ProjectNext == RefreshProjects \/ ScanStep
ProjectSpec == ProjectInit /\ [][ProjectNext]_vars /\ WF_vars(ScanStep)

\* calls of updateLocaleFile on the files of two locales
WriteInit ==
    /\ CoreInit
    /\ activeEditor = NoDoc
    /\ \E file \in WriteFiles :
          localeFiles = [locale \in Locales |-> IF locale = "en" THEN file ELSE Absent]
    /\ inlangSettings = JsNull
    /\ pipeline = IdlePipeline
    /\ resolver = IdleResolver
    /\ scanner = IdleScanner
    /\ localeChoice = IdleChoice
    /\ OtherProvidersIdle
WriteNext ==
    \E locale \in ActiveLocales, key \in WriteKeys, value \in WriteValues,
       writable \in BOOLEAN : updateLocaleFile(locale, key, value, writable)
WriteSpec == WriteInit /\ [][WriteNext]_vars

\* the legacy provider under arbitrary callers of refresh()
LegacyInit ==
    /\ CoreInit
    /\ activeEditor = NoDoc
    /\ localeFiles = [locale \in Locales |-> Absent]
    /\ inlangSettings = JsNull
    /\ pipeline = IdlePipeline
    /\ resolver = IdleResolver
    /\ scanner = IdleScanner
    /\ localeChoice = IdleChoice
    /\ OtherProvidersIdle
LegacyNext ==
    \/ \E document \in {NoDoc, "src/a.ts", "messages/en.json"} : LegacyRefresh(document)
    \/ \E self \in 1..Len(legacy.calls) :
          \/ LegacyResumeScan(self)
          \/ LegacyResumeIsTranslationFile(self)
          \/ LegacyResumeGetTranslationData(self)
    \/ \E t \in legacy.timers : LegacyGraceFire(t)
LegacySpec == LegacyInit /\ [][LegacyNext]_vars

\* one scan of every text
ScanInit ==
    /\ CoreInit
    /\ activeEditor = NoDoc
    /\ localeFiles = [locale \in Locales |-> Absent]
    /\ inlangSettings = JsNull
    /\ pipeline = IdlePipeline
    /\ resolver = IdleResolver
    /\ \E text \in Texts : scanner = [pc |-> "start", text |-> text, calls |-> << >>]
    /\ localeChoice = IdleChoice
    /\ OtherProvidersIdle
ScanNext == ScanFlat \/ ScanNested \/ SortAndReturn
ScanSpec == ScanInit /\ [][ScanNext]_vars

\* one load and one lookup over every file content and every key
ResolverInit ==
    /\ CoreInit
    /\ activeEditor = NoDoc
    /\ localeFiles = [locale \in Locales |-> Absent]
    /\ inlangSettings = JsNull
    /\ pipeline = IdlePipeline
    /\ \E file \in DataFiles, key \in ResolverKeys :
          resolver = [pc |-> "start", file |-> file, key |-> key,
                      data |-> Undefined, value |-> Undefined]
    /\ scanner = IdleScanner
    /\ localeChoice = IdleChoice
    /\ OtherProvidersIdle
ResolverNext == Load \/ Resolve
ResolverSpec == ResolverInit /\ [][ResolverNext]_vars

----------------------------------------------------------------------------
(* Properties of TranslationKeysProvider.refresh *)

LastCall(cs) == cs[Len(cs)]
Params(c) == [document |-> c.document, force |-> c.force]
Idle == ~refreshInProgress /\ pendingRefresh = NoPending
\* a refresh() call from outside arrives in this step
Arrives == /\ Len(calls') = Len(calls) + 1
           /\ LastCall(calls').kind = "request"
\* the requests recorded while the pass of call p was in flight
RecordedDuring(p) == {i \in 1..Len(calls) : calls[i].during = p}
\* the trailing calls made by the finally block of call p
TrailingOf(p) == {t \in 1..Len(calls) : calls[t].kind = "trailing" /\ calls[t].parent = p}

\* C1: single-flight. At most one refresh pass body is executing at any time, and
\* a request that arrives while a pass is in flight starts no pass: it returns at
\* once and is only recorded in pendingRefresh.
C1_SingleFlight ==
    /\ [](Cardinality(RunningCalls(calls)) <= 1)
    /\ [][(RunningCalls(calls) # {} /\ Arrives) =>
            /\ RunningCalls(calls') = RunningCalls(calls)
            /\ LastCall(calls').pc = "returned"
            /\ pendingRefresh' = Params(LastCall(calls'))
            /\ refreshInProgress'
            /\ clearTimeout' = clearTimeout
            /\ View' = View
            /\ fired' = fired]_vars

C1_Witness ==
    \E i \in 1..Len(calls) :
        /\ calls[i].result = "recorded"
        /\ calls[i].during \in RunningCalls(calls)
        /\ pendingRefresh = Params(calls[i])

\* C2: trailing coalescing. If k >= 1 requests were recorded while the pass of call
\* p was in flight, then once that pass is over exactly one trailing call exists,
\* it runs a pass with the (document, force) of the last of the k requests, and
\* the recorded requests themselves never run a pass; while p is in flight, and
\* when nothing was recorded, there is no trailing call.
C2_TrailingRunUsesLastRequest ==
    \A p \in 1..Len(calls) :
        LET K == RecordedDuring(p)
            T == TrailingOf(p)
        IN  /\ (calls[p].pc \in BodyPcs \/ K = {}) => T = {}
            /\ (calls[p].pc \notin BodyPcs /\ K # {}) =>
                  /\ Cardinality(T) = 1
                  /\ \A t \in T : /\ Params(calls[t]) = Params(calls[MaxOf(K)])
                                  /\ calls[t].result # "recorded"
                                  /\ t > MaxOf(K)
            /\ \A i \in K : calls[i].pc = "returned" /\ calls[i].text = -1

C2_Witness ==
    \E p \in 1..Len(calls) :
        /\ Cardinality(RecordedDuring(p)) >= 2
        /\ \E i \in RecordedDuring(p) : Params(calls[i]) # Params(calls[MaxOf(RecordedDuring(p))])
        /\ \E t \in TrailingOf(p) : calls[t].result = "published"

\* C5: clear-with-grace. A refresh(null) request changes none of translationData,
\* currentFilePath, currentTranslations, currentLocale and fires no notification
\* in the step that processes it; the displayed state becomes the cleared state
\* only in the step of the grace timer's callback, GraceDelay after it was armed,
\* which fires one notification.
C5_ClearWithGrace ==
    [][/\ (Arrives /\ LastCall(calls').document = NoDoc) =>
             /\ View' = View
             /\ fired' = fired
             /\ (~refreshInProgress => clearTimeout' = [left |-> GraceDelay, age |-> 0,
                                                        armedBy |-> Len(calls')])
       /\ (View' = ClearedView /\ View # ClearedView) =>
             /\ clearTimeout # NoTimer
             /\ clearTimeout.age >= GraceDelay
             /\ clearTimeout' = NoTimer
             /\ fired' = fired + 1]_vars

C5_Witness ==
    /\ View = ClearedView
    /\ clearTimeout = NoTimer
    /\ \E i \in 1..Len(calls) : calls[i].result = "published"
    /\ LastCall(calls).result = "armed"

\* C6: a grace timer never stays armed across a refresh request for a document:
\* whenever the timer is armed, no request for a document has arrived after the
\* call that armed it, so its clear cannot follow such a request.
C6_DocumentRequestCancelsGrace ==
    clearTimeout # NoTimer =>
        \A j \in 1..Len(calls) :
            (calls[j].kind = "request" /\ calls[j].document # NoDoc)
                => j < clearTimeout.armedBy

C6_Witness ==
    /\ Len(calls) = 2
    /\ calls[1].result = "armed"
    /\ calls[2].kind = "request"
    /\ calls[2].result = "published"
    /\ clearTimeout = NoTimer
    /\ fired = 1

\* C7: context preservation. The step in which a non-forced pass learns that its
\* document is a locale-data file leaves the four displayed fields as they are,
\* and as they were when the pass started, scans nothing (the pass never reaches
\* getTranslationData and reads no text), ends the pass and fires one
\* notification.
C7_ContextPreservation ==
    [][\A self \in 1..Len(calls) :
          (/\ calls[self].pc = "isTranslationFile"
           /\ calls'[self].pc # "isTranslationFile"
           /\ ~calls[self].force
           /\ isTranslationFile(calls[self].document, workspaceOpen)) =>
              /\ View' = View
              /\ View' = passStartView
              /\ fired' = fired + 1
              /\ calls'[self].pc \in {"returned", "finally"}
              /\ calls'[self].text = -1
              /\ calls'[self].result = "preserved"]_vars

C7_Witness ==
    /\ \E i \in 1..Len(calls) : calls[i].result = "preserved" /\ calls[i].text = -1
    /\ currentFilePath \in SourceDocs
    /\ LastCall(calls).result = "preserved"

\* C8: with finitely many requests and every awaited operation completing, a
\* coordinator that is Running always comes back to Idle (refreshInProgress false,
\* pendingRefresh empty), whether the pass succeeds, preserves, clears or fails.
C8_EventuallyIdle == (~Idle) ~> Idle

C8_Witness ==
    /\ Idle
    /\ \E i \in 1..Len(calls) : calls[i].result = "threw"
    /\ \E i \in 1..Len(calls) : calls[i].kind = "trailing" /\ calls[i].pc = "returned"

\* C9: the step in which a pass fails resets refreshInProgress, empties the
\* pending slot and, if a follow-up was recorded, starts one trailing call with
\* the follow-up's own (document, force).
C9_FailureStillRunsFollowUp ==
    [][\A self \in 1..Len(calls) :
          (calls[self].result # "threw" /\ calls'[self].result = "threw") =>
              /\ pendingRefresh' = NoPending
              /\ IF pendingRefresh = NoPending
                 THEN /\ ~refreshInProgress'
                      /\ Len(calls') = Len(calls)
                      /\ calls'[self].pc = "returned"
                 ELSE /\ Len(calls') = Len(calls) + 1
                      /\ LastCall(calls').kind = "trailing"
                      /\ LastCall(calls').parent = self
                      /\ Params(LastCall(calls')) = pendingRefresh
                      /\ IF pendingRefresh.document = NoDoc
                         THEN /\ ~refreshInProgress'
                              /\ LastCall(calls').result = "armed"
                              /\ clearTimeout'.armedBy = Len(calls')
                         ELSE /\ refreshInProgress'
                              /\ LastCall(calls').pc = "isTranslationFile"]_vars

C9_Witness ==
    \E p \in 1..Len(calls) :
        /\ calls[p].result = "threw"
        /\ \E t \in TrailingOf(p) : calls[t].result = "published"
        /\ Idle

Quiescent == /\ Idle
             /\ RunningCalls(calls) = {}
             /\ clearTimeout = NoTimer
             /\ ExternalCalls(calls) # {}
\* the call that ran the pass of the last request: the request itself, or the
\* trailing call made from the pending slot it was recorded in
PassOfLastRequest ==
    LET last == MaxOf(ExternalCalls(calls))
    IN  IF calls[last].result = "recorded" THEN Len(calls) ELSE last

\* C10: at quiescence the displayed state is the outcome of the last request
\* issued: the cleared state for refresh(null), the unchanged state for a
\* non-forced locale-file request, otherwise that document's path and data; a
\* request superseded while pending never runs a pass.
C10_LastRequestWins ==
    Quiescent =>
        LET last == calls[MaxOf(ExternalCalls(calls))]
            run == calls[PassOfLastRequest]
        IN  /\ Params(run) = Params(last)
            /\ run.result # "recorded"
            /\ IF last.document = NoDoc
               THEN View = ClearedView
               ELSE IF PreservesContext(last.force,
                                        isTranslationFile(last.document, workspaceOpen))
               THEN View = passStartView
               ELSE /\ currentFilePath = last.document
                    /\ translationData = DataOf(last.document, run.text, workspaceOpen)
                    /\ run.text = docText[last.document]
            /\ \A i \in 1..Len(calls) :
                  (calls[i].result = "recorded" /\ TrailingOf(calls[i].during) # {})
                      => \/ i = MaxOf(RecordedDuring(calls[i].during))
                         \/ calls[i].text = -1

----------------------------------------------------------------------------
(* Properties of the activator's debounce and save handling *)

C4_SaveBypassesDebounce ==
    /\ [](\A d \in Docs : track.saved[d] =>
             /\ TimersOf(timers, d) = {}
             /\ documentUpdateTimeouts[d] = 0)
    /\ [](\A k \in 1..Len(debounceLog) : ~debounceLog[k].saved)
    /\ [][\A d \in Docs :
            (track'.saves[d] = track.saves[d] + 1 /\ isSupportedDocument(d)) =>
                /\ TimersOf(timers', d) = {}
                /\ documentUpdateTimeouts'[d] = 0
                /\ Len(handlers') = Len(handlers) + 1
                /\ handlers'[Len(handlers')].kind = "save"
                /\ handlers'[Len(handlers')].document = d
                /\ handlers'[Len(handlers')].pc = "loadTranslationsForLocale"
                /\ handlers'[Len(handlers')].text = docText[d]]_vars

C4_Witness ==
    \E h \in 1..Len(handlers) :
        /\ handlers[h].kind = "save"
        /\ handlers[h].cancelled
        /\ handlers[h].pc = "returned"
        /\ debounceLog = << >>

----------------------------------------------------------------------------
(* Properties of EditorService.processDocument under the event handlers *)

\* the awaits of processDocument
ProcessPcs == {"loadTranslationsForLocale", "processTranslationCallsWithWarnings"}
\* the processDocument passes of document d that are in flight
PassesInFlight(d) ==
    {h \in 1..Len(handlers) : handlers[h].document = d /\ handlers[h].pc \in ProcessPcs}
\* the processDocument passes of document d that have applied their output
PassesApplied(hs, d) ==
    {h \in 1..Len(hs) : /\ hs[h].document = d
                         /\ hs[h].text # -1
                         /\ hs[h].pc \in {"processDocument", "returned"}}

\* C11: for any one document at most one processDocument pass is in flight at a
\* time.
C11_OnePassPerDocument ==
    \A d \in Docs : Cardinality(PassesInFlight(d)) <= 1

\* C12: a processDocument pass never applies its decorations and CodeLens results
\* after a later-started pass of the same document has applied its own, and once
\* no pass of a document is in flight its decorations are those of the pass
\* started last.
C12_LaterPassWins ==
    /\ [][\A h \in 1..Len(handlers) :
            (handlers[h].pc = "processTranslationCallsWithWarnings"
                /\ handlers'[h].pc = "processDocument") =>
              \A h2 \in PassesApplied(handlers, handlers[h].document) : h2 < h]_vars
    /\ [](\A d \in Docs :
            (PassesInFlight(d) = {} /\ PassesApplied(handlers, d) # {}) =>
                activeDecorations[d] = handlers[MaxOf(PassesApplied(handlers, d))].text)

----------------------------------------------------------------------------
(* One coordinator for all documents *)

\* the call whose pass is in flight
Running(cs) == CHOOSE p \in RunningCalls(cs) : TRUE

----------------------------------------------------------------------------
(* Which text-changed events re-arm the debounce timer *)

\* the debounce timer of document d has just been armed anew, in place of any
\* timer that was pending for it
Rearmed(d) ==
    /\ Cardinality(TimersOf(timers', d)) = 1
    /\ \A t \in TimersOf(timers', d) :
          /\ t.left = UpdateDelay
          /\ documentUpdateTimeouts'[d] = t.id
    /\ \A t \in timers' : t.doc # d => t \in timers

\* a change that spans lines, inserts a line break, deletes text, or inserts
\* text containing 'm.' or '()'
Significant(change) ==
    \/ change.lineChange > 0
    \/ change.rangeLength > 0
    \/ \E i \in 1..Len(change.text) : change.text[i] \in {"\n", "\r"}
    \/ \E i \in 1..(Len(change.text) - 1) :
          <<change.text[i], change.text[i + 1]>> \in {<<"m", ".">>, <<"(", ")">>}

----------------------------------------------------------------------------
(* Forced refreshes and the debounce timers *)

\* a refresh(document, true) call for document d arrives in this step
ForcedArrives(d) ==
    /\ Arrives
    /\ LastCall(calls').force
    /\ LastCall(calls').document = d

----------------------------------------------------------------------------
(* The live-updates switch *)

\* C16: while poirot.realtimeUpdates is false a text-changed event arms no timer
\* and starts nothing; the change event of the switch going false leaves no
\* debounce timer pending; and a debounce callback that runs while the switch is
\* false starts no pass and leaves the decorations alone.
C16_NoLiveUpdatesWhileDisabled ==
    /\ [][\A document \in Docs, changes \in ContentChanges :
            (TextChanged(document, changes) /\ ~realtimeUpdates) =>
                /\ timers' = timers
                /\ documentUpdateTimeouts' = documentUpdateTimeouts
                /\ handlers' = handlers]_vars
    /\ [][(RealtimeUpdatesChanged(FALSE)) =>
                /\ timers' = {}
                /\ \A d \in Docs : documentUpdateTimeouts'[d] = 0]_vars
    /\ [][\A k \in 1..Len(debounceLog') :
            (k > Len(debounceLog) /\ ~realtimeUpdates) =>
                /\ ~debounceLog'[k].ran
                /\ handlers' = handlers
                /\ activeDecorations' = activeDecorations
                /\ codeLens' = codeLens
                /\ calls' = calls]_vars
    /\ [][\A h \in 1..Len(handlers') :
            (h > Len(handlers) /\ handlers'[h].kind = "debounce") => realtimeUpdates]_vars

\* a timer armed while the switch was on fired after it went off
C16_Witness ==
    \E k \in 1..Len(debounceLog) :
        /\ ~debounceLog[k].enabled
        /\ ~debounceLog[k].ran
        /\ debounceLog[k].burst >= 1
        /\ handlers = << >>

----------------------------------------------------------------------------
(* Properties of the resolution pipeline *)

\* the Key Resolver's answer for result i against the active locale data
ResolvedInActive(i) ==
    getTranslation(pipeline.translations, pipeline.results[i].call.methodName)

\* C17: for every scanned call, if the Key Resolver returns a non-null value for
\* its key against the active locale data (a string leaf verbatim, the empty
\* string included, or a marker-suffixed variant value) the result is Resolved
\* with that value and Fallback Search is not consulted; otherwise a hit of
\* Fallback Search gives ResolvedElsewhere with the found value and locale, and
\* no hit gives Unresolved with value null.
C17_ThreeStateResolution ==
    \A i \in 1..Len(pipeline.results) :
        LET result == pipeline.results[i]
            search == pipeline.searches[i]
        IN  IF ResolvedInActive(i) # JsNull
            THEN /\ result.warningType = "null"
                 /\ result.translationValue = ResolvedInActive(i)
                 /\ search = NoSearch
            ELSE /\ search # NoSearch
                 /\ IF search.result.type = "hit"
                    THEN /\ result.warningType = "missingLocale"
                         /\ result.translationValue = search.result.translation
                         /\ result.foundInLocale = search.result.locale
                    ELSE /\ result.warningType = "noLocale"
                         /\ result.translationValue = JsNull

\* C18: every result of the pipeline satisfies: Unresolved implies value null;
\* ResolvedElsewhere implies a non-null value and a foundInLocale that is set
\* and differs from the active locale; foundInLocale is set only when the
\* state is ResolvedElsewhere.
C18_ResolvedCallInvariant ==
    \A i \in 1..Len(pipeline.results) :
        LET result == pipeline.results[i]
        IN  /\ result.warningType = "noLocale" => result.translationValue = JsNull
            /\ result.warningType = "missingLocale" =>
                  /\ result.translationValue # JsNull
                  /\ result.foundInLocale # Unset
                  /\ result.foundInLocale # pipeline.currentLocale
            /\ result.foundInLocale # Unset => result.warningType = "missingLocale"

\* a returned pass with a call found in another locale and a call found nowhere
C18_Witness ==
    /\ pipeline.pc = "returned"
    /\ \E i, j \in 1..Len(pipeline.results) :
          /\ pipeline.results[i].warningType = "missingLocale"
          /\ pipeline.results[j].warningType = "noLocale"

\* the configured locales other than the active one, in their declared order
OtherLocales ==
    SelectSeq(availableLocalesOf(inlangSettings), LAMBDA locale : locale # pipeline.currentLocale)

\* the Key Resolver's answer for a key against the data of a locale
ResolvedIn(locale, key) ==
    getTranslation(loadTranslations(localeFiles[locale]), key)

\* the expected Fallback Search for a key: the first of the other locales, in
\* order, in which the key resolves is returned and nothing after it is visited
FirstHit(search, key) ==
    LET hits == {n \in 1..Len(OtherLocales) : ResolvedIn(OtherLocales[n], key) # JsNull}
    IN  IF hits = {}
        THEN /\ search.result = JsNull
             /\ search.loaded = OtherLocales
        ELSE LET first == CHOOSE n \in hits : \A m \in hits : n <= m
             IN  /\ search.result = Hit(ResolvedIn(OtherLocales[first], key), OtherLocales[first])
                 /\ search.loaded = SubSeq(OtherLocales, 1, first)

\* C19: Fallback Search visits the configured locales in their declared order,
\* never loads or returns the excluded (active) locale, returns the value and
\* identity of the first locale in that order in which the key resolves,
\* without visiting later locales, and returns null exactly when no other
\* configured locale resolves the key.
C19_FallbackSearchFirstHit ==
    \A i \in 1..Len(pipeline.searches) :
        pipeline.searches[i] # NoSearch =>
            FirstHit(pipeline.searches[i], pipeline.results[i].call.methodName)

\* a data file that is missing, unreadable or malformed
FailedFile(file) ==
    ~file.exists \/ ~file.readable \/ ~file.parses \/ file.json.type = "null"

\* the other locales whose data file loads
LoadableLocales ==
    SelectSeq(OtherLocales, LAMBDA locale : ~FailedFile(localeFiles[locale]))

\* C20: in Fallback Search a candidate locale whose data file is missing,
\* unreadable or malformed counts as having no value for the key and the search
\* continues with the next configured locale; the failure never aborts the
\* search or hides a hit in a later locale: the search returns what it returns
\* over the configured locales without the failing ones.
C20_FailedLocaleIsSkipped ==
    \A i \in 1..Len(pipeline.searches) :
        LET search == pipeline.searches[i]
            key == pipeline.results[i].call.methodName
        IN  search # NoSearch =>
              /\ \A n \in 1..Len(search.loaded) :
                    FailedFile(localeFiles[search.loaded[n]]) =>
                       /\ search.result.type = "hit" => search.result.locale # search.loaded[n]
                       /\ n < Len(OtherLocales) =>
                             /\ Len(search.loaded) > n
                             /\ search.loaded[n + 1] = OtherLocales[n + 1]
              /\ search.result = SearchFrom(localeFiles, LoadableLocales, 1, key,
                                            pipeline.currentLocale).result

\* a search that met a file that does not parse and returned a hit from the
\* locale after it
C20_Witness ==
    \E i \in 1..Len(pipeline.searches) :
        LET search == pipeline.searches[i]
        IN  /\ search # NoSearch
            /\ Len(search.loaded) = 2
            /\ localeFiles[search.loaded[1]] = Malformed
            /\ search.result.type = "hit"
            /\ search.result.locale = search.loaded[2]

\* C21: when the data of the active locale is null (file absent or malformed)
\* the pass gives a result for every scanned call, each obtained from Fallback
\* Search (ResolvedElsewhere on a hit, Unresolved otherwise); no call is
\* Resolved and no exception escapes the pass.
C21_NullActiveLocaleFallsBack ==
    (pipeline.pc # "idle" /\ FailedFile(localeFiles[pipeline.currentLocale])) =>
        /\ pipeline.translations = EmptyObj
        /\ pipeline.pc = "returned" => Len(pipeline.results) = Len(pipeline.translationCalls)
        /\ \A i \in 1..Len(pipeline.results) :
              LET result == pipeline.results[i]
                  search == pipeline.searches[i]
              IN  /\ result.call = pipeline.translationCalls[i]
                  /\ search # NoSearch
                  /\ search.result.type # "thrown"
                  /\ result.warningType # "null"
                  /\ IF search.result.type = "hit"
                     THEN /\ result.warningType = "missingLocale"
                          /\ result.translationValue = search.result.translation
                          /\ result.foundInLocale = search.result.locale
                     ELSE /\ result.warningType = "noLocale"
                          /\ result.translationValue = JsNull

\* a returned pass over two calls whose active locale file does not parse:
\* one call is found in another locale, the other nowhere
C21_Witness ==
    /\ pipeline.pc = "returned"
    /\ localeFiles[pipeline.currentLocale] = Malformed
    /\ Len(pipeline.results) = 2
    /\ pipeline.results[1].warningType = "missingLocale"
    /\ pipeline.results[2].warningType = "noLocale"

\* the other locales whose file loads now and gives the key a non-empty value
FoundElsewhere(key) ==
    {n \in 1..Len(OtherLocales) :
        /\ ~FailedFile(localeFiles[OtherLocales[n]])
        /\ Truthy(ResolvedIn(OtherLocales[n], key))}

----------------------------------------------------------------------------
(* Properties of the Locale Repository and the Key Resolver *)

\* a parsed value that is a mapping
IsMapping(json) == json.type = "object"

\* C22: load returns null and raises nothing when the file does not exist,
\* when its text is malformed, or when its top-level value is not a mapping
\* (array, string, number, null); otherwise it returns the complete parsed
\* mapping.
C22_LoadNullUnlessMapping ==
    resolver.pc \in {"loaded", "resolved"} =>
        /\ resolver.data.type # "thrown"
        /\ IF resolver.file.exists /\ resolver.file.readable /\ resolver.file.parses
              /\ IsMapping(resolver.file.json)
           THEN resolver.data = resolver.file.json
           ELSE resolver.data = JsNull

\* the leaf a dotted path leads to through mappings only; Undefined if a
\* segment is absent or an intermediate value is no mapping
RECURSIVE Descend(_, _)
Descend(data, path) ==
    IF path = << >> THEN data
    ELSE IF IsMapping(data) /\ \E i \in 1..Len(data.keys) : data.keys[i] = path[1]
         THEN Descend(data.vals[CHOOSE i \in 1..Len(data.keys) : data.keys[i] = path[1]],
                      Tail(path))
         ELSE Undefined

\* the leaf the path rule selects for a key
LeafOf(data, key) ==
    IF Len(key.path) > 1 THEN Descend(data, key.path) ELSE Descend(data, <<key.name>>)

\* C24: for a key containing '.', resolve descends the data one segment at a
\* time and returns null if an intermediate segment is absent or is not a
\* mapping, or if the last segment is absent; for a key without '.', it makes
\* a single top-level lookup only. A string leaf reached is the value.
C24_PathRule ==
    (resolver.pc = "resolved" /\ IsMapping(resolver.data)) =>
        LET leaf == LeafOf(resolver.data, resolver.key)
        IN  /\ leaf = Undefined => resolver.value = JsNull
            /\ leaf.type = "string" => resolver.value = leaf

\* the first-variant policy: the first record's first match value with the
\* marker appended; null for an empty list and for a first record without a
\* match mapping or with an empty one
FirstVariant(list) ==
    IF Len(list.items) = 0 THEN JsNull
    ELSE LET first == list.items[1]
             match == IF IsMapping(first) THEN Descend(first, <<"match">>) ELSE Undefined
         IN  IF IsMapping(match) /\ Len(match.vals) > 0
             THEN Str(JsString(match.vals[1]).str \o "*")
             ELSE JsNull

\* C25: when the resolved leaf is a variant list, resolve returns the first
\* record's first match value with a single '*' appended, whatever the later
\* records hold; an empty list, a first record without a match mapping or with
\* an empty one, and any other non-string leaf (number, boolean, nested
\* mapping) resolve to null; resolve never raises.
C25_VariantLeafPolicy ==
    (resolver.pc = "resolved" /\ IsMapping(resolver.data)) =>
        LET leaf == LeafOf(resolver.data, resolver.key)
        IN  /\ resolver.value.type # "thrown"
            /\ leaf.type = "array" => resolver.value = FirstVariant(leaf)
            /\ leaf.type \in {"number", "boolean", "object"} => resolver.value = JsNull

----------------------------------------------------------------------------
(* Locale data is read anew by every pass *)

\* the root nodes of the tree as the given files give them
TreeFromDisk(file, ws, files, settings) ==
    RootNodes(getTranslationData(file, 0, ws, files, settings),
              loadTranslations(files[DefaultLocale]))

\* the inline hints of a pass over the given calls as the given files give them
HintsFromDisk(translationCalls, active, files, settings) ==
    LET translations == loadTranslations(files[active])
    IN  [n \in 1..Len(translationCalls) |->
            ResolveCall(translationCalls[n],
                        IF Truthy(translations) THEN translations ELSE EmptyObj,
                        files, settings, active).pushed]

\* the refresh passes that started after the last write to disk and complete
\* in this step with one of the given results
Completing(results) ==
    {self \in 1..Len(calls) :
        /\ ~calls[self].dirty
        /\ calls[self].result = "none"
        /\ calls'[self].result \in results}

\* the inline-hint pass started after the last write to disk returns in this step
HintsReturn ==
    pipeline.pc = "processing" /\ pipeline'.pc = "returned" /\ ~pipeline.dirty

MatchesOf(text) ==
    {[methodName |-> "greeting", start |-> OffsetOf(text, k),
      end |-> OffsetOf(text, k) + ItemLength("flat"), keyType |-> "flat"] :
        k \in {n \in DOMAIN text : text[n] = "flat"}}
    \cup {[methodName |-> "greeting", start |-> OffsetOf(text, k) + InnerOffset,
           end |-> OffsetOf(text, k) + InnerOffset + ItemLength("flat"),
           keyType |-> "flat"] :
        k \in {n \in DOMAIN text : text[n] = "nestedWithFlat"}}
    \cup {[methodName |-> "login.email", start |-> OffsetOf(text, k),
           end |-> OffsetOf(text, k) + ItemLength(text[k]), keyType |-> "nested"] :
        k \in {n \in DOMAIN text : text[n] \in {"nested", "nestedWithFlat"}}}

\* C27: findTranslationCalls returns the flat and the nested matches of the
\* whole text as one sequence, each match once, in ascending start offset,
\* and every returned call ends after it starts
C27_ScanOrdering ==
    scanner.pc = "returned" =>
        /\ {scanner.calls[i] : i \in DOMAIN scanner.calls} = MatchesOf(scanner.text)
        /\ Len(scanner.calls) = Cardinality(MatchesOf(scanner.text))
        /\ \A i, j \in DOMAIN scanner.calls :
               i < j => scanner.calls[i].start <= scanner.calls[j].start
        /\ \A i \in DOMAIN scanner.calls : scanner.calls[i].end > scanner.calls[i].start

\* a nested call that stands before a flat call is returned before it,
\* although the flat calls are found first
C27_Witness ==
    /\ scanner.pc = "returned"
    /\ Len(scanner.calls) >= 3
    /\ scanner.calls[1].keyType = "nested"
    /\ scanner.calls[2].keyType = "flat"
    /\ scanner.calls[2].start < scanner.calls[1].end
    /\ scanner.calls[3].keyType = "nested"


\* ---------------------------------------------------------------------
\* Running the resolution pipeline twice
\* ---------------------------------------------------------------------

OverrideSet(configLocale) == configLocale.type = "string" /\ configLocale.str # ""
\* a settings file of the open workspace names a base locale
ProvidesBaseLocale(ws, file) ==
    /\ ws
    /\ file.exists /\ file.readable /\ file.parses
    /\ file.json.type = "object"
    /\ \E i \in DOMAIN file.json.keys :
          /\ file.json.keys[i] = "baseLocale"
          /\ file.json.vals[i].type = "string"
          /\ file.json.vals[i].str # ""
BaseLocaleIn(file) ==
    file.json.vals[CHOOSE i \in DOMAIN file.json.keys : file.json.keys[i] = "baseLocale"]

\* C29: the active locale is the configuration override if one is set,
\* otherwise the base locale of the project settings file if it provides
\* one, otherwise 'en'
C29_LocalePriority ==
    localeChoice.pc = "returned" =>
        localeChoice.result =
            IF OverrideSet(localeChoice.configLocale) THEN localeChoice.configLocale
            ELSE IF ProvidesBaseLocale(workspaceOpen, localeChoice.settingsFile)
            THEN BaseLocaleIn(localeChoice.settingsFile)
            ELSE Str("en")

\* an override chosen although the settings file names another base locale
C29_Witness ==
    /\ localeChoice.pc = "returned"
    /\ localeChoice.configLocale = Str("fr")
    /\ ProvidesBaseLocale(workspaceOpen, localeChoice.settingsFile)
    /\ BaseLocaleIn(localeChoice.settingsFile) = Str("de")
    /\ localeChoice.result = Str("fr")


\* ---------------------------------------------------------------------
\* The refresh coordinator as a state machine
\* ---------------------------------------------------------------------

\* the passes in flight before this step that are over after it
Completed == RunningCalls(calls) \ RunningCalls(calls')

\* C30: between turns pendingRefresh is filled only while refreshInProgress
\* is true; the step in which a pass completes with a follow-up recorded
\* empties the slot and makes exactly one further call, a pass with the
\* recorded parameters; the step in which a pass completes with nothing
\* recorded makes no call and leaves the coordinator Idle; and only a
\* request that arrives takes the coordinator out of Idle
C30_CoordinatorStateMachine ==
    /\ [](pendingRefresh # NoPending => refreshInProgress)
    /\ [][Completed # {} =>
            IF pendingRefresh # NoPending
            THEN /\ pendingRefresh' = NoPending
                 /\ Len(calls') = Len(calls) + 1
                 /\ LastCall(calls').kind = "trailing"
                 /\ LastCall(calls').parent \in Completed
                 /\ Params(LastCall(calls')) = pendingRefresh
                 /\ LastCall(calls').result # "recorded"
                 /\ IF pendingRefresh.document # NoDoc
                    THEN refreshInProgress' /\ RunningCalls(calls') = {Len(calls')}
                    ELSE Idle' /\ LastCall(calls').result = "armed"
            ELSE /\ Len(calls') = Len(calls)
                 /\ Idle']_vars
    /\ [][(Idle /\ ~Idle') => Arrives]_vars

\* a follow-up pass that published was itself followed by a no-document
\* follow-up, after which the coordinator is Idle
C30_Witness ==
    /\ Idle
    /\ \E t1, t2 \in 1..Len(calls) :
          /\ calls[t1].kind = "trailing"
          /\ calls[t1].result = "published"
          /\ calls[t2].kind = "trailing"
          /\ calls[t2].parent = t1
          /\ calls[t2].result = "armed"


\* ---------------------------------------------------------------------
\* Cancel-on-replace timers
\* ---------------------------------------------------------------------

\* the calls whose grace timer is armed and has neither fired nor been cancelled
LiveClearTimers(cs) == {i \in 1..Len(cs) : cs[i].timer = "live"}
\* the debounce timers of a document armed in this step
ArmedFor(d) == {t \in timers' : t.doc = d /\ t.id \notin TimerIds(timers)}

\* C31: at most one debounce timer is pending per document and at most one
\* grace timer overall; a step that arms a timer leaves no earlier timer of
\* the same target pending; documentUpdateTimeouts has an entry for a
\* document exactly when a timer of it is pending, and the entry is that
\* timer; the clearTimeout field is set exactly when a grace timer is pending
C31_CancelOnReplaceTimers ==
    /\ [](\A d \in Docs :
            /\ Cardinality(TimersOf(timers, d)) <= 1
            /\ documentUpdateTimeouts[d] # 0 <=> TimersOf(timers, d) # {}
            /\ \A t \in TimersOf(timers, d) : t.id = documentUpdateTimeouts[d])
    /\ [](/\ Cardinality(LiveClearTimers(calls)) <= 1
          /\ clearTimeout # NoTimer <=> LiveClearTimers(calls) # {}
          /\ \A i \in LiveClearTimers(calls) : clearTimeout.armedBy = i)
    /\ [][/\ \A d \in Docs :
               ArmedFor(d) # {} =>
                   \A t \in TimersOf(timers, d) : t.id \notin TimerIds(timers')
          /\ LiveClearTimers(calls') \ LiveClearTimers(calls) # {} =>
               LiveClearTimers(calls) \cap LiveClearTimers(calls') = {}]_vars

\* a debounce timer that replaced an earlier one of the same document is
\* the only one pending for it
C31_Witness ==
    \E d \in Docs :
        /\ track.burst[d] >= 2
        /\ Cardinality(TimersOf(timers, d)) = 1
        /\ \A t \in TimersOf(timers, d) : t.id = documentUpdateTimeouts[d] /\ t.left > 0


\* ---------------------------------------------------------------------
\* One resolved call per scanned call
\* ---------------------------------------------------------------------

\* C32: the pipeline returns one resolved call per scanned call, in scan
\* order, each with the key and the offsets of its scanned call; the calls
\* found in no locale are among them
C32_OneResultPerScannedCall ==
    pipeline.pc = "returned" =>
        /\ Len(pipeline.results) = Len(pipeline.translationCalls)
        /\ \A i \in DOMAIN pipeline.translationCalls :
              /\ pipeline.results[i].call.methodName = pipeline.translationCalls[i].methodName
              /\ pipeline.results[i].call.start = pipeline.translationCalls[i].start
              /\ pipeline.results[i].call.end = pipeline.translationCalls[i].end

\* a returned pass whose first call was resolved and whose second call, of
\* another key, was found in no locale
C32_Witness ==
    /\ pipeline.pc = "returned"
    /\ Len(pipeline.results) = 2
    /\ pipeline.results[1].warningType \in {"null", "missingLocale"}
    /\ pipeline.results[2].warningType = "noLocale"
    /\ pipeline.results[1].call.start < pipeline.results[2].call.start


\* ---------------------------------------------------------------------
\* The grace timer and the pass in flight
\* ---------------------------------------------------------------------

\* the grace timer's callback runs in this step
GraceFires == \E i \in 1..Len(calls) : calls[i].timer = "live" /\ calls'[i].timer = "fired"

\* C33: between turns a pending grace timer implies that no pass is in
\* progress, and the timer's callback never runs while a pass is in flight
C33_NoGraceTimerDuringPass ==
    /\ [](clearTimeout # NoTimer => (~refreshInProgress /\ RunningCalls(calls) = {}))
    /\ [][GraceFires => (~refreshInProgress /\ RunningCalls(calls) = {})]_vars

\* a grace timer pending after a pass that published, with no pass in progress
C33_Witness ==
    /\ clearTimeout # NoTimer
    /\ ~refreshInProgress
    /\ \E i, j \in 1..Len(calls) :
          /\ i < j
          /\ calls[i].result = "published"
          /\ calls[j].timer = "live"
          /\ clearTimeout.armedBy = j


\* ---------------------------------------------------------------------
\* The displayed fields are published together
\* ---------------------------------------------------------------------

\* the four fields as the pass of call p assigns them when it publishes
PublishedBy(p) ==
    <<calls'[p].data, calls[p].document,
      IF workspaceOpen
      THEN [locale |-> DefaultLocale,
            data |-> loadTranslationsForLocale(localeFiles, DefaultLocale)]
      ELSE NoTranslations,
      IF workspaceOpen THEN DefaultLocale ELSE NoLocale>>

\* C34: the four displayed fields change together: a step that changes any
\* of them is the grace timer's callback, which leaves all four cleared, or
\* the publishing step of one pass, which leaves all four as that pass
\* assigns them; so between turns the rows shown belong to currentFilePath
\* and the loaded data to currentLocale
C34_AtomicPublication ==
    /\ [][View' # View =>
            \/ GraceFires /\ View' = ClearedView
            \/ \E p \in RunningCalls(calls) :
                  /\ calls'[p].result = "published"
                  /\ View' = PublishedBy(p)]_vars
    /\ [](/\ \A i \in DOMAIN translationData : translationData[i].file = currentFilePath
          /\ currentTranslations.locale = currentLocale
          /\ currentFilePath = NoFile => View = ClearedView)

\* a second pass has replaced what a first pass published for another document
C34_Witness ==
    \E p, q \in 1..Len(calls) :
        /\ p < q
        /\ calls[p].result = "published"
        /\ calls[q].result = "published"
        /\ calls[p].document # calls[q].document
        /\ calls[p].data # NoData
        /\ currentFilePath = calls[q].document
        /\ currentLocale = DefaultLocale


\* ---------------------------------------------------------------------
\* A locale data file changes while the tree holds a preserved context
\* ---------------------------------------------------------------------

\* the handlers of locale-file-changed events that found a preserved context
PreservedHandlers == {h \in 1..Len(handlers) : handlers[h].kind = "watch" /\ handlers[h].force}
\* a locale-file-changed event starts a handler in this step
WatchStarts == /\ Len(handlers') = Len(handlers) + 1
               /\ handlers'[Len(handlers')].kind = "watch"
\* handler h makes its refresh call in this step
Issues(h) == /\ Len(calls') = Len(calls) + 1
             /\ LastCall(calls').kind = "request"
             /\ Params(LastCall(calls')) = [document |-> handlers[h].document, force |-> TRUE]
\* handler h ends in this step
Ends(h) == handlers[h].pc # "returned" /\ handlers'[h].pc = "returned"
\* the forced call of handler h, made with no pass in flight when the event
\* arrived (arrived is -1 otherwise) and no other call since, publishes in
\* this step
PublishesFor(h, c) ==
    /\ handlers[h].arrived >= 0
    /\ c = handlers[h].arrived + 1
    /\ c \in RunningCalls(calls)
    /\ calls[c].force
    /\ calls[c].document = handlers[h].document
    /\ calls'[c].result = "published"
    /\ Len(calls') = c

\* the event starts a handler for the preserved document whenever the tree
\* holds a preserved context, never for the active editor's document; the
\* refresh call such a handler makes is forced and for that document; and
\* when it publishes with no other request made since the event,
\* currentFilePath is what it was
C35_FrameOfPreservedRefresh ==
    /\ WatchStarts =>
          LET h == handlers'[Len(handlers')]
          IN  /\ View' = View /\ calls' = calls
              /\ IF hasPreservedContext
                 THEN h.force /\ h.document = currentFilePath /\ h.pc = "openTextDocument"
                 ELSE ~h.force /\ h.document = activeEditor
    /\ \A h \in PreservedHandlers :
          /\ Len(calls') > Len(calls) /\ Ends(h) => Issues(h)
          /\ \A c \in 1..Len(calls) :
                PublishesFor(h, c) =>
                    /\ currentFilePath' = currentFilePath
                    /\ currentFilePath' = handlers[h].document

\* the claim as stated: the handler of every such event makes the forced call
C35_PreservedContextRefreshed ==
    [][/\ C35_FrameOfPreservedRefresh
       /\ \A h \in PreservedHandlers : Ends(h) => Issues(h)]_vars

\* C35: a locale-file-changed event that finds a preserved context makes a
\* forced refresh call for the preserved document, unless that document
\* cannot be opened, in which case it only fires a change notification and
\* leaves the displayed fields alone; with no other request interleaved
\* currentFilePath is unchanged afterwards, and the tree is never switched
\* to the active editor's document by this event
C35_PreservedContextRefreshedIfOpened ==
    [][/\ C35_FrameOfPreservedRefresh
       /\ \A h \in PreservedHandlers :
             Ends(h) => \/ Issues(h)
                        \/ /\ handlers[h].pc = "openTextDocument"
                           /\ fired' = fired + 1
                           /\ calls' = calls
                           /\ View' = View]_vars

\* the forced pass for a preserved document that is not the active editor's
\* has published
C35_Witness ==
    \E h \in PreservedHandlers :
        /\ handlers[h].pc = "returned"
        /\ handlers[h].document # activeEditor
        /\ activeEditor # NoDoc
        /\ Len(calls) = handlers[h].arrived + 1
        /\ calls[Len(calls)].force
        /\ calls[Len(calls)].result = "published"
        /\ currentFilePath = handlers[h].document


\* ---------------------------------------------------------------------
\* The tree and the inline hints on the presence of a key
\* ---------------------------------------------------------------------

\* the tree data lists a value for the locale under the key
TreeLists(locale, key) ==
    \E i \in DOMAIN LocaleRows(localeFiles, getAvailableLocales(inlangSettings, localeFiles), key) :
        LocaleRows(localeFiles, getAvailableLocales(inlangSettings, localeFiles), key)[i].locale
            = locale

\* C36: for every scanned key and the active locale, the tree data lists a
\* value for that locale under the key exactly when the pipeline gives the
\* call the state Resolved
C36_ConsumersAgreeOnPresence ==
    pipeline.pc = "returned" =>
        \A i \in DOMAIN pipeline.results :
            TreeLists(pipeline.currentLocale, pipeline.results[i].call.methodName)
                <=> pipeline.results[i].warningType = "null"


\* ---------------------------------------------------------------------
\* ProjectSelectorProvider.refresh
\* ---------------------------------------------------------------------

\* the scans in flight
Scanning(ps) == {i \in 1..Len(ps.calls) : ps.calls[i].pc = "scanForProjects"}
\* the calls that ran a pass: not the ones that were only recorded
SelectorPasses(ps) == {i \in 1..Len(ps.calls) : ps.calls[i].result # "recorded"}
SelectorIdle == ~projectSelector.refreshInProgress /\ ~projectSelector.pendingRefresh

\* C37: at most one project scan is in flight; the requests that arrive
\* during a scan start none and, however many they are, are followed by
\* exactly one trailing call once the scan is over, a scan that threw
\* included; a scan during which none arrived is followed by none; and the
\* provider always returns to refreshInProgress = false with nothing pending
C37_SelectorSingleFlight ==
    /\ [](/\ Cardinality(Scanning(projectSelector)) <= 1
          /\ projectSelector.pendingRefresh => projectSelector.refreshInProgress
          /\ \A p \in SelectorPasses(projectSelector) :
                LET K == {i \in 1..Len(projectSelector.calls) :
                             projectSelector.calls[i].during = p}
                    T == {t \in 1..Len(projectSelector.calls) :
                             /\ projectSelector.calls[t].kind = "trailing"
                             /\ projectSelector.calls[t].parent = p}
                IN  /\ \A i \in K : projectSelector.calls[i].pc = "returned"
                    /\ (p \in Scanning(projectSelector) \/ K = {}) => T = {}
                    /\ (p \notin Scanning(projectSelector) /\ K # {}) =>
                          /\ Cardinality(T) = 1
                          /\ T \subseteq SelectorPasses(projectSelector))
    /\ ~SelectorIdle ~> SelectorIdle

\* two requests arrived during a scan that threw, one trailing scan
\* followed it and the provider is idle again
C37_Witness ==
    /\ SelectorIdle
    /\ \E p \in SelectorPasses(projectSelector) :
          /\ projectSelector.calls[p].result = "threw"
          /\ Cardinality({i \in 1..Len(projectSelector.calls) :
                             projectSelector.calls[i].during = p}) >= 2
          /\ \E t \in 1..Len(projectSelector.calls) :
                /\ projectSelector.calls[t].parent = p
                /\ projectSelector.calls[t].result = "published"


\* ---------------------------------------------------------------------
\* The legacy SidebarTreeProvider.refresh
\* ---------------------------------------------------------------------

\* the callback of the timer that call t armed runs in this step
LegacyFires(t) ==
    /\ t \in legacy.timers
    /\ t \notin legacy'.timers
    /\ Len(legacy'.calls) = Len(legacy.calls)

\* C38: in the legacy provider at most one grace timer is pending at a
\* time, and the timer armed by a refresh(null) call never wipes the
\* translationData that a refresh(document) call issued after it published
C38_LegacyGraceKeepsLaterData ==
    /\ [](Cardinality(legacy.timers) <= 1)
    /\ [][\A t \in legacy.timers : LegacyFires(t) => legacy.translationData <= t]_vars


\* ---------------------------------------------------------------------
\* ExtractionService.updateLocaleFile followed by a load and a lookup
\* ---------------------------------------------------------------------

\* what the locale of the last update holds when loaded now / held before
LoadedAfter == loadTranslations(localeFiles[extraction.locale])
LoadedBefore == loadTranslations(extraction.before)
\* key resolved to a string before the last update and resolves to the same now
KeepsValue(key) ==
    getTranslation(LoadedBefore, key).type = "string"
        => getTranslation(LoadedAfter, key) = getTranslation(LoadedBefore, key)

\* the write replaces a value on the path of `other`: the old value at the
\* written key, or a value that is no mapping at a proper prefix of it
OnReplacedPath(other) ==
    LET path == extraction.key.path
    IN  \E n \in 1..Len(path) :
          /\ n <= Len(other.path)
          /\ SubSeq(other.path, 1, n) = SubSeq(path, 1, n)
          /\ \/ n = Len(path)
             \/ getNestedValue(LoadedBefore, SubSeq(path, 1, n)).type # "object"

\* C39 as stated: after a successful updateLocaleFile(locale, key, value)
\* the key resolves to exactly value in the loaded locale, and every other
\* key that resolved to a string before resolves to the same string
C39_WriteReadRoundTrip ==
    extraction.pc = "updated" =>
        /\ getTranslation(LoadedAfter, extraction.key) = extraction.value
        /\ \A other \in ReadKeys \ {extraction.key} : KeepsValue(other)

\* C39, amended: the same for a key that does not end in a dot, written to a
\* locale file that did not exist or held a mapping, and for the other keys
\* whose path neither ends at nor passes through a value the write replaces
C39_WriteReadRoundTripOffReplacedPaths ==
    (/\ extraction.pc = "updated"
     /\ extraction.key.path[Len(extraction.key.path)] # ""
     /\ ~extraction.before.exists \/ extraction.before.json.type = "object") =>
        /\ getTranslation(LoadedAfter, extraction.key) = extraction.value
        /\ \A other \in ReadKeys \ {extraction.key} :
              ~OnReplacedPath(other) => KeepsValue(other)

\* a dotted key was written into a file that had other keys next to it,
\* one of which still resolves to its string
C39_Witness ==
    /\ extraction.pc = "updated"
    /\ extraction.key.name = "login.inputs.email"
    /\ extraction.before.exists
    /\ getTranslation(LoadedBefore, extraction.key) = Str("Email")
    /\ getTranslation(LoadedAfter, extraction.key) = Str("Salut")
    /\ getTranslation(LoadedAfter, Key("login.title", <<"login", "title">>)) = Str("Login")

====
